---- MODULE Spec2Model ----
(***************************************************************************)
(* A model of the reporting core of the mail server:                       *)
(*   - the Lookup Store facade on the transactional-KV backend             *)
(*     (crates/store/src/dispatch/lookup.rs): TTL'd keys, counters with    *)
(*     expiry records, the rate limiter built from them;                   *)
(*   - the TLS report pipeline (crates/smtp/src/reporting/tls.rs):         *)
(*     aggregation, delivery with fallback, cleanup.                       *)
(* Every await of the code is an interleaving point: an operation is one   *)
(* action per store round trip.                                            *)
(***************************************************************************)
EXTENDS Integers, Sequences, FiniteSets, TLC

\* ---------------------------------------------------------------- bounds
MaxTime == 2
MaxCalls == 3
MaxOps == 3
MaxEvents == 2
MaxRuns == 2
MaxBlk == 3
SessionCacheTtl == 1
TimeBits == 5

\* ------------------------------------------------------------ input sets
Procs == {"p1", "p2"}
RateKeys == {"ip", "login"}
Rates == {[requests |-> 1, period |-> 2], [requests |-> 2, period |-> 3]}
LookupKeys == {"k"}
Values == {"x", "y"}

\* Option<T>: None is the empty sequence, Some(x) the one-element sequence.
None == <<>>
Some(x) == <<x>>

\* u64::MAX, the "never expires" stamp.  TLC's integers are 32-bit: the
\* largest of them stands for it, and no clock value of the model reaches it.
U64_MAX == 2147483647

VARIABLES
    clock,          \* now(): seconds of wall-clock time
    rate,           \* the configured Rate {requests, period}
    counters,       \* LookupClass::Counter: bucket -> i64 (absent: not in DOMAIN)
    counterExpiry,  \* LookupClass::CounterExpiry: bucket -> u64
    rl,             \* per caller: the is_rate_allowed call in flight
    calls,          \* number of is_rate_allowed calls begun (bounds the model)
    begun,          \* history: bucket -> hard calls begun
    committed,      \* history: bucket -> increments committed
    allowed,        \* history: bucket -> hard calls that returned None
    keys,           \* LookupClass::Key: key -> the entry (expiry stamp, value)
    kv,             \* per caller: the key_set/key_get/key_exists/key_delete call in flight
    ops,            \* number of key operations and purges begun (bounds the model)
    purge,          \* the purge_expired run in flight
    tlsHeaders,     \* QueueClass::TlsReportHeader: group -> TlsFormat {rua, policy}
    tlsLocks,       \* QueueClass::tls_lock: the lock markers stored
    tlsEvents,      \* QueueClass::TlsReportEvent: <<group, seq_id>> -> Option<FailureDetails>
    maxSize,        \* report.config.tls.max_size, evaluated
    test_mode,      \* the build has feature "test_mode"
    gen,            \* the generate_tls_report run
    del,            \* the delete_tls_report call
    log,            \* history: what the generate_tls_report run did, in order
    runs,           \* number of generate/delete calls begun (bounds the model)
    lastClean,      \* history: the events of the last delete call no store error cut short
    sched,          \* per producer: the schedule_tls call in flight
    lastId,         \* queue.snowflake_id: the last id the generator gave out
    commits,        \* history: the batches schedule_tls has written, in commit order
    assigned,       \* history: the seq_ids schedule_tls has assigned, in order
    ip_addresses,   \* BlockedIps.ip_addresses
    ip_networks,    \* BlockedIps.ip_networks
    has_networks,   \* BlockedIps.has_networks
    limiter_rate,   \* BlockedIps.limiter_rate: Option<Rate>
    f2b,            \* the is_fail2banned call
    rel,            \* the reload_blocked_ips call
    banned,         \* history: the addresses is_fail2banned has inserted since the last reload
    blkCalls,       \* number of BlockedIps calls begun (bounds the model)
    backend,        \* the LookupStore variant of the dispatch model
    memory,         \* the contents of a MemoryStore / the rows of a Query lookup
    disp,           \* the last call dispatched on that variant
    work,           \* per caller: the spawn_worker call in flight
    auth,           \* the authenticate_headers call
    pb,             \* purge_expired's clear loop: what is left, the open batch, the batches written
    sessions,       \* JMAP.sessions: token -> account id, with its expiry
    access_tokens,  \* JMAP.access_tokens: account id -> its expiry
    hdr             \* the authenticate_headers call, any mechanism

rateVars == <<rate, counters, counterExpiry, rl, calls, begun, committed, allowed>>
keyVars == <<keys, kv, ops>>
tlsStore == <<tlsHeaders, tlsLocks, tlsEvents>>
tlsVars == <<tlsStore, maxSize, test_mode, gen, del, log, runs, lastClean>>
schedVars == <<sched, lastId, commits, assigned>>
blkVars == <<ip_addresses, ip_networks, has_networks, limiter_rate, f2b, rel, banned, blkCalls>>
dispVars == <<backend, memory, disp>>
cacheVars == <<sessions, access_tokens, hdr>>
extVars == <<work, auth, pb, cacheVars>>
moreVars == <<schedVars, blkVars, dispVars, extVars>>
vars == <<clock, rateVars, keyVars, purge, tlsVars, moreVars>>

\* ------------------------------------------------------- partial functions
Get(f, k, default) == IF k \in DOMAIN f THEN f[k] ELSE default
Put(f, k, v) == [x \in DOMAIN f \cup {k} |-> IF x = k THEN v ELSE f[x]]
Drop(f, ks) == [x \in DOMAIN f \ ks |-> f[x]]
Empty == [x \in {} |-> 0]

\* ------------------------------------------------------------ byte strings
\* Vec<u8> keys compare as the store compares them: lexicographically.
RECURSIVE LexLeqFrom(_, _, _)
LexLeqFrom(a, b, i) ==
    IF i > Len(a) THEN TRUE
    ELSE IF i > Len(b) THEN FALSE
    ELSE IF a[i] # b[i] THEN a[i] < b[i]
    ELSE LexLeqFrom(a, b, i + 1)
LexLeq(a, b) == LexLeqFrom(a, b, 1)

\* u64::to_be_bytes.  The model's values are below 2^31, so the four high
\* bytes are 0.
ToBeBytes(n) ==
    IF n = U64_MAX THEN <<255, 255, 255, 255, 255, 255, 255, 255>>
    ELSE <<0, 0, 0, 0,
           (n \div 16777216) % 256, (n \div 65536) % 256, (n \div 256) % 256, n % 256>>

\* The bytes of the keys the callers use: the model names a key by a
\* string and the store orders it by these bytes.
FfKey == "ff*11"
KeyBytes(key) ==
    CASE key = "" -> <<>>
      [] key = "k" -> <<107>>
      [] key = "ip" -> <<105, 112>>
      [] key = "login" -> <<108, 111, 103, 105, 110>>
      [] key = FfKey -> <<255, 255, 255, 255, 255, 255, 255, 255, 255, 255, 255>>

\* ------------------------------------------------------------ rate limiter
\* is_rate_allowed, lines 262-269: the bucket of a call made at time `now`.
RangeStart(now, r) == now \div r.period
\* (RangeEnd_BucketStart: the end of the range without the + period.)
RangeEnd_BucketStart(now, r) == RangeStart(now, r) * r.period
RangeEnd(now, r) == (RangeStart(now, r) * r.period) + r.period
ExpiresIn(now, r) == RangeEnd(now, r) - now
Bucket(key, now, r) == <<key, RangeStart(now, r)>>

\* Store::get_counter: the stored value, 0 when the counter is absent.
GetCounter(b) == Get(counters, b, 0)

\* counter_incr on LookupStore::Store: one batch sets the expiry record to
\* now() + expires and adds `value` to the counter.
CounterIncrExpiry(b, expires) == Put(counterExpiry, b, clock + expires)
\* (CounterIncrValue_Set: the batch written with ValueOp::Set in place of Add.)
CounterIncrValue_Set(b, value) == Put(counters, b, value)
CounterIncrValue(b, value) == Put(counters, b, GetCounter(b) + value)
\* ... and the value it returns: the placeholder 0.
CounterIncrReturn == 0

\* lines 286-290: the verdict on the value compared against the limit
\* (RateDecision_Strict: the comparison written with < in place of <=).
RateDecision_Strict(requests, r, expires_in) ==
    IF requests < r.requests THEN None ELSE Some(expires_in)
RateDecision(requests, r, expires_in) ==
    IF requests <= r.requests THEN None ELSE Some(expires_in)

IdleCall == [pc |-> "idle", key |-> "ip", soft |-> FALSE, now |-> 0,
             requests |-> 0, result |-> None, k |-> 0, own |-> 0, alone |-> FALSE,
             prev |-> None]

\* A call is in flight from its first statement to its return; "ret" holds
\* the returned value until the task makes its next call.
InFlight(p) == rl[p].pc \notin {"idle", "ret"}
CallBucket(p) == Bucket(rl[p].key, rl[p].now, rate)

\* History: the call of p that has returned was a soft check of bucket b
\* and the counter of b is what that check read.
SoftJustBefore(p, b) ==
    /\ rl[p].pc = "ret" /\ rl[p].soft
    /\ CallBucket(p) = b
    /\ GetCounter(b) = rl[p].requests - 1

\* lines 262-271: the call reads now() and derives its bucket.
RateBegin(p, key, soft) ==
    /\ ~InFlight(p)
    /\ calls < MaxCalls
    /\ LET b == Bucket(key, clock, rate)
           quiet == \A q \in Procs \ {p} : ~InFlight(q)
       IN /\ rl' = [q \in Procs |->
                     IF q = p
                     THEN [IdleCall EXCEPT !.pc = IF soft THEN "peek" ELSE "incr",
                                           !.key = key, !.soft = soft, !.now = clock,
                                           !.k = IF soft THEN 0 ELSE Get(begun, b, 0) + 1,
                                           !.alone = quiet,
                                           !.prev = IF ~soft /\ quiet /\ SoftJustBefore(p, b)
                                                    THEN Some([result |-> rl[p].result,
                                                               now |-> rl[p].now])
                                                    ELSE None]
                     ELSE IF InFlight(q) THEN [rl[q] EXCEPT !.alone = FALSE] ELSE rl[q]]
          /\ begun' = IF soft THEN begun ELSE Put(begun, b, Get(begun, b, 0) + 1)
    /\ calls' = calls + 1
    /\ UNCHANGED <<clock, rate, counters, counterExpiry, committed, allowed, keyVars, purge, tlsVars, moreVars>>

\* line 272: counter_incr(bucket, 1, expires_in), one write batch.
RateIncr(p) ==
    /\ rl[p].pc = "incr"
    /\ LET b == CallBucket(p)
       IN /\ counterExpiry' = CounterIncrExpiry(b, ExpiresIn(rl[p].now, rate))
          /\ counters' = CounterIncrValue(b, 1)
          /\ committed' = Put(committed, b, Get(committed, b, 0) + 1)
          /\ rl' = [rl EXCEPT ![p].requests = CounterIncrReturn,
                              ![p].own = Get(committed, b, 0) + 1,
                              ![p].result = IF CounterIncrReturn > 0
                                            THEN RateDecision(CounterIncrReturn, rate,
                                                              ExpiresIn(rl[p].now, rate))
                                            ELSE None,
                              ![p].pc = IF CounterIncrReturn > 0 THEN "ret" ELSE "fetch"]
    /\ UNCHANGED <<clock, rate, calls, begun, allowed, keyVars, purge, tlsVars, moreVars>>

\* lines 276-290: increment-and-get not supported, the counter is read back
\* and compared against the limit.
RateFetch(p) ==
    /\ rl[p].pc = "fetch"
    /\ LET b == CallBucket(p)
           requests == GetCounter(b)
           res == RateDecision(requests, rate, ExpiresIn(rl[p].now, rate))
       IN /\ rl' = [rl EXCEPT ![p].requests = requests, ![p].result = res, ![p].pc = "ret"]
          /\ allowed' = IF res = None THEN Put(allowed, b, Get(allowed, b, 0) + 1) ELSE allowed
    /\ UNCHANGED <<clock, rate, counters, counterExpiry, calls, begun, committed, keyVars, purge, tlsVars, moreVars>>

\* line 283 with an increment slipped in: the soft check made to count.
RatePeek_Counting(p) ==
    /\ rl[p].pc = "peek"
    /\ counters' = CounterIncrValue(CallBucket(p), 1)
    /\ LET requests == GetCounter(CallBucket(p)) + 1
       IN rl' = [rl EXCEPT ![p].requests = requests, ![p].pc = "ret",
                           ![p].result = RateDecision(requests, rate, ExpiresIn(rl[p].now, rate))]
    /\ UNCHANGED <<clock, rate, counterExpiry, calls, begun, committed, allowed, keyVars, purge, tlsVars, moreVars>>
\* line 283 without the + 1: the soft check compares the stored count.
RatePeek_Stale(p) ==
    /\ rl[p].pc = "peek"
    /\ LET requests == GetCounter(CallBucket(p)) + 1
       IN rl' = [rl EXCEPT ![p].requests = requests, ![p].pc = "ret",
                           ![p].result = RateDecision(requests - 1, rate, ExpiresIn(rl[p].now, rate))]
    /\ UNCHANGED <<clock, rate, counters, counterExpiry, calls, begun, committed, allowed, keyVars, purge, tlsVars, moreVars>>
\* lines 283-290: the soft check reads the counter, adds one to its copy and
\* compares that against the limit.
RatePeek(p) ==
    /\ rl[p].pc = "peek"
    /\ LET requests == GetCounter(CallBucket(p)) + 1
       IN rl' = [rl EXCEPT ![p].requests = requests, ![p].pc = "ret",
                           ![p].result = RateDecision(requests, rate, ExpiresIn(rl[p].now, rate))]
    /\ UNCHANGED <<clock, rate, counters, counterExpiry, calls, begun, committed, allowed, keyVars, purge, tlsVars, moreVars>>

\* ------------------------------------------------------------- TTL'd keys
Ttls == {None, Some(1), Some(2)}

\* key_set, lines 72-77: the stored bytes are the expiry stamp followed by the
\* value.  `w` and `ttl` are history: the now() and the ttl of the writing call.
KeyEntry(value, ttl, now) ==
    [expires |-> IF ttl = None THEN U64_MAX ELSE now + ttl[1],
     value |-> value, w |-> now, ttl |-> ttl]

\* LookupValue::deserialize, lines 382-390, and From<LookupValue<T>> for
\* Option<T>: the value if the stamp is in the future, nothing otherwise
\* (Deserialize_Inclusive: the stamp compared with >= in place of >).
Deserialize_Inclusive(entry, now) ==
    IF entry.expires >= now THEN Some(entry.value) ELSE None
Deserialize(entry, now) ==
    IF entry.expires > now THEN Some(entry.value) ELSE None

IdleOp == [pc |-> "idle", op |-> "none", key |-> "k", bytes |-> None, at |-> 0,
           result |-> None]
IdlePurge == [pc |-> "idle", now |-> 0, expired |-> {}, started |-> 0, done |-> FALSE]

\* purge_expired, lines 297-299 and 329-334: the scans run from the key
\* [0] to the key [0xff; 10] of the class, both included.
PurgeFrom == <<0>>
PurgeTo == <<255, 255, 255, 255, 255, 255, 255, 255, 255, 255>>
InPurgeRange(bytes) == LexLeq(PurgeFrom, bytes) /\ LexLeq(bytes, PurgeTo)

\* The bytes of a counter key of the limiter, lines 267-269: the key, then
\* the bucket number as a big-endian u64.
BucketBytes(b) == KeyBytes(b[1]) \o ToBeBytes(b[2])

OpFree(p) == kv[p].pc \in {"idle", "ret"}

\* key_set, lines 69-78: the batch is built, reading now().
KeySetBegin(p, key, value, ttl) ==
    /\ OpFree(p)
    /\ ops < MaxOps
    /\ kv' = [kv EXCEPT ![p] = [IdleOp EXCEPT !.pc = "set_write", !.op = "set", !.key = key,
                                              !.bytes = Some(KeyEntry(value, ttl, clock))]]
    /\ ops' = ops + 1
    /\ UNCHANGED <<clock, rateVars, keys, purge, tlsVars, moreVars>>

\* key_set, line 79: the batch is written.
KeySetWrite(p) ==
    /\ kv[p].pc = "set_write"
    /\ keys' = Put(keys, kv[p].key, kv[p].bytes[1])
    /\ kv' = [kv EXCEPT ![p].pc = "ret"]
    /\ UNCHANGED <<clock, rateVars, ops, purge, tlsVars, moreVars>>

\* key_delete, lines 137-143: one batch clears the key.
KeyDelete(p, key) ==
    /\ OpFree(p)
    /\ ops < MaxOps
    /\ keys' = Drop(keys, {key})
    /\ kv' = [kv EXCEPT ![p] = [IdleOp EXCEPT !.pc = "ret", !.op = "delete", !.key = key]]
    /\ ops' = ops + 1
    /\ UNCHANGED <<clock, rateVars, purge, tlsVars, moreVars>>

\* key_get / key_exists, lines 176-180 and 230-234: get_value fetches the
\* stored bytes of the key.
KeyReadFetch(p, op, key) ==
    /\ OpFree(p)
    /\ ops < MaxOps
    /\ kv' = [kv EXCEPT ![p] = [IdleOp EXCEPT !.pc = "deser", !.op = op, !.key = key,
                                              !.bytes = IF key \in DOMAIN keys
                                                        THEN Some(keys[key]) ELSE None]]
    /\ ops' = ops + 1
    /\ UNCHANGED <<clock, rateVars, keys, purge, tlsVars, moreVars>>

\* key_get, line 181, and key_exists, line 235: the fetched bytes are
\* deserialized against now() and turned into the result: an Option<value>
\* for key_get, the boolean of key_exists held as Some(boolean).
KeyReadResult(op, bytes, now) ==
    LET value == IF bytes = None THEN None ELSE Deserialize(bytes[1], now)
    IN IF op = "get" THEN value ELSE Some(value # None)

KeyReadDeser(p) ==
    /\ kv[p].pc = "deser"
    /\ kv' = [kv EXCEPT ![p].pc = "ret", ![p].at = clock,
                        ![p].result = KeyReadResult(kv[p].op, kv[p].bytes, clock)]
    /\ UNCHANGED <<clock, rateVars, keys, ops, purge, tlsVars, moreVars>>

\* ------------------------------------------------------------ the sweeper
\* purge_expired, lines 296-310: now() is read and the lookup keys are
\* scanned for stamps that have passed.
PurgeScanKeys ==
    /\ purge.pc = "idle"
    /\ ops < MaxOps
    /\ purge' = [pc |-> "del_keys", now |-> clock, started |-> clock, done |-> FALSE,
                 expired |-> {k \in DOMAIN keys :
                                InPurgeRange(KeyBytes(k)) /\ keys[k].expires <= clock}]
    /\ ops' = ops + 1
    /\ UNCHANGED <<clock, rateVars, keys, kv, tlsVars, moreVars>>

\* lines 311-326: the expired keys are cleared (fewer than 1000: one batch).
PurgeDelKeys ==
    /\ purge.pc = "del_keys"
    /\ keys' = Drop(keys, purge.expired)
    /\ purge' = [purge EXCEPT !.pc = "scan_counters", !.expired = {}]
    /\ UNCHANGED <<clock, rateVars, kv, ops, tlsVars, moreVars>>

\* lines 328-345: now() is read again and the expiry records are scanned.
PurgeScanCounters ==
    /\ purge.pc = "scan_counters"
    /\ purge' = [purge EXCEPT !.pc = "del_counters", !.now = clock,
                               !.expired = {b \in DOMAIN counterExpiry :
                                              InPurgeRange(BucketBytes(b))
                                                  /\ counterExpiry[b] <= clock}]
    /\ UNCHANGED <<clock, rateVars, keyVars, tlsVars, moreVars>>

\* lines 346-365: each expired counter and its expiry record are cleared.
PurgeDelCounters ==
    /\ purge.pc = "del_counters"
    /\ counters' = Drop(counters, purge.expired)
    /\ counterExpiry' = Drop(counterExpiry, purge.expired)
    /\ purge' = [IdlePurge EXCEPT !.started = purge.started, !.done = TRUE]
    /\ UNCHANGED <<clock, rate, rl, calls, begun, committed, allowed, keyVars, tlsVars, moreVars>>

\* ------------------------------------------------------------ counters
\* Counter keys of the shape the limiter writes.
CounterKeys == {<<key, 0>> : key \in RateKeys}

\* counter_incr, lines 104-124: one batch sets the expiry record, when a ttl
\* is given, and adds `value` to the counter.
CounterIncr(b, value, expires) ==
    /\ ops < MaxOps
    /\ counters' = CounterIncrValue(b, value)
    /\ counterExpiry' = IF expires = None THEN counterExpiry
                        ELSE CounterIncrExpiry(b, expires[1])
    /\ ops' = ops + 1
    /\ UNCHANGED <<clock, rate, rl, calls, begun, committed, allowed, keys, kv, purge, tlsVars, moreVars>>

\* counter_delete, lines 155-162: one batch that clears the counter.
CounterDelete(b) ==
    /\ ops < MaxOps
    /\ counters' = Drop(counters, {b})
    /\ ops' = ops + 1
    /\ UNCHANGED <<clock, rate, counterExpiry, rl, calls, begun, committed, allowed, keys, kv, purge, tlsVars, moreVars>>

\* ------------------------------------------------------------ TLS reports
\* A group is the (domain, policy_hash, due) part of a ReportEvent.
Group(policy) == [domain |-> "example.org", policy_hash |-> policy, due |-> 86400]
Groups == {Group(1), Group(2)}

\* Option<FailureDetails>: None is the success sentinel.
Failures == {"f1", "f2"}
Payloads == {None} \cup {Some(f) : f \in Failures}

\* ReportUri::Http and ReportUri::Mail.
TestUri == "https://127.0.0.1/tls"
HttpUris == {"h1", "h2", TestUri}
MailUris == {"m1", "m2"}
IsHttp(uri) == uri \in HttpUris
IsMail(uri) == uri \in MailUris

\* Serialized sizes, in bytes, of the report shell, of a policy header and of
\* each failure record.
SerSize == [shell |-> 2, header |-> 1, f1 |-> 2, f2 |-> 3]
\* line 114: the default of tls.max_size.
DefaultMaxSize == 25 * 1024 * 1024

\* SerializedSize (reporting module): a writer that accepts `size` bytes while
\* the bytes written stay within the maximum, and fails otherwise.
SerializeFits(size, left) == size <= left
SerializeLeft(size, left) == IF SerializeFits(size, left) THEN left - size ELSE left

\* QueueClass::tls_lock: the lock marker of a report, one per (domain, due).
TlsLock(event) == [domain |-> event.domain, due |-> event.due]

\* The key of an event: the fields of the group, then the seq_id.  Its
\* serialization keeps field order: keys compare field by field, a domain
\* as its bytes and a u64 as a number.
DomainBytes == [d \in {"example.org"} |-> <<101, 120, 97, 109, 112, 108, 101, 46, 111, 114, 103>>]
EventKey(g, seq) == <<g.domain, g.policy_hash, g.due, seq>>
KeyLeq(a, b) ==
    IF a[1] # b[1] THEN LexLeq(DomainBytes[a[1]], DomainBytes[b[1]])
    ELSE IF a[2] # b[2] THEN a[2] < b[2]
    ELSE IF a[3] # b[3] THEN a[3] < b[3]
    ELSE a[4] <= b[4]

\* Store::iterate: the stored keys (<<group, seq_id>>) whose serialized key
\* lies in [from, to], in ascending (or descending) key order.
RECURSIVE SortKeys(_, _)
SortKeys(S, ascending) ==
    IF S = {} THEN <<>>
    ELSE LET m == CHOOSE x \in S : \A y \in S :
                     IF ascending THEN KeyLeq(EventKey(x[1], x[2]), EventKey(y[1], y[2]))
                                  ELSE KeyLeq(EventKey(y[1], y[2]), EventKey(x[1], x[2]))
         IN <<m>> \o SortKeys(S \ {m}, ascending)
Iterate(events, from, to, ascending) ==
    SortKeys({k \in DOMAIN events : /\ KeyLeq(from, EventKey(k[1], k[2]))
                                    /\ KeyLeq(EventKey(k[1], k[2]), to)},
             ascending)

\* lines 153-166 and 485-496: the bounds of a group's range, seq_id 0 and
\* u64::MAX (RangeTo_AnyPolicy: the upper bound built with policy_hash
\* u64::MAX as well).
RangeFrom(g) == EventKey(g, 0)
RangeTo_AnyPolicy(g) == EventKey([g EXCEPT !.policy_hash = U64_MAX], U64_MAX)
RangeTo(g) == EventKey(g, U64_MAX)

\* line 171: IterateParams::new(from_key, to_key).ascending()
\* (ScanAscending_Not: the scan left in descending order).
ScanAscending_Not == FALSE
ScanAscending == TRUE

\* lines 153-171: the range scan of a group: the keys visited, in order, and
\* the payloads stored under them.
GroupKeys(events, g) == Iterate(events, RangeFrom(g), RangeTo(g), ScanAscending)
GroupSeqs(events, g) ==
    LET ks == GroupKeys(events, g) IN [i \in 1..Len(ks) |-> ks[i][2]]
GroupScan(events, g) ==
    LET ks == GroupKeys(events, g) IN [i \in 1..Len(ks) |-> events[ks[i]]]

\* lines 172-196: the scan callback on the records `pl`, from record i.
\* st.map is record_map; st.counted (history) the records counted.
RECURSIVE ScanEvents(_, _, _)
ScanEvents(pl, i, st) ==
    IF i > Len(pl) \/ st.stop THEN st
    ELSE IF pl[i] = None
    THEN ScanEvents(pl, i + 1, [st EXCEPT !.total_success = @ + 1,
                                          !.counted = @ \cup {i}])
    ELSE LET fd == pl[i][1]
         IN IF fd \in DOMAIN st.map
            THEN ScanEvents(pl, i + 1, [st EXCEPT !.total_failure = @ + 1,
                                                  !.map = Put(@, fd, @[fd] + 1),
                                                  !.counted = @ \cup {i}])
            ELSE IF SerializeFits(SerSize[fd], st.left)
            THEN ScanEvents(pl, i + 1, [st EXCEPT !.total_failure = @ + 1,
                                                  !.map = Put(@, fd, 1),
                                                  !.left = SerializeLeft(SerSize[fd], @),
                                                  !.counted = @ \cup {i}])
            ELSE [st EXCEPT !.stop = TRUE]

\* lines 485-506: delete_range from seq_id 0 to u64::MAX of the event's group
\* (TlsDeleteRange_First: a delete that removes only the first key it finds).
TlsDeleteRange_First(events, g) ==
    LET ks == Iterate(events, RangeFrom(g), RangeTo(g), TRUE)
    IN IF ks = <<>> THEN events ELSE Drop(events, {ks[1]})
TlsDeleteRange(events, g) ==
    LET ks == Iterate(events, RangeFrom(g), RangeTo(g), TRUE)
    IN Drop(events, {ks[i] : i \in 1..Len(ks)})

\* lines 226-253: what follows aggregation (AfterBuilt_NoCleanup: the
\* compression failure returning without cleanup; AfterBuilt_DeliverEmpty:
\* the empty report not looked for).
AfterBuilt_DeliverEmpty(policies, compressOk) == IF ~compressOk THEN "cleanup" ELSE "deliver"
AfterBuilt_NoCleanup(policies, compressOk) ==
    IF policies = <<>> THEN "cleanup" ELSE IF ~compressOk THEN "return" ELSE "deliver"
AfterBuilt(policies, compressOk) ==
    IF policies = <<>> THEN "cleanup" ELSE IF ~compressOk THEN "cleanup" ELSE "deliver"

\* lines 279-308: what follows the answer to a POST (AfterPost_Continue: the
\* success branch falling through to the next recipient).
AfterPost_Continue(response) == "next"
AfterPost(response) == IF response = "success" THEN "cleanup" ELSE "next"

\* lines 318-354: the messages handed to send_report, each with its
\* recipients (SmtpMessages_Each: one message per mailbox recipient).
SmtpMessages_Each(rcpts) == [i \in 1..Len(rcpts) |-> <<rcpts[i]>>]
SmtpMessages(rcpts) == IF rcpts # <<>> THEN <<rcpts>> ELSE <<>>

IdleGen == [pc |-> "idle", events |-> <<>>, i |-> 0, left |-> 0, capHit |-> FALSE,
            cut |-> FALSE, policies |-> <<>>, rua |-> <<>>, j |-> 0, rcpts |-> <<>>,
            outcome |-> "none", headless |-> {}]
IdleDel == [pc |-> "idle", events |-> <<>>, pos |-> 0, batch |-> {}, caller |-> "none",
            clean |-> TRUE, second |-> FALSE, snap |-> <<>>]

\* line 481-482: delete_tls_report(events) is entered (EnterDelete_Nothing:
\* entered with no event to remove).
EnterDelete_Nothing(events, caller) ==
    [pc |-> "write", events |-> <<>>, pos |-> 1, batch |-> {}, caller |-> caller,
     clean |-> TRUE, second |-> FALSE, snap |-> tlsStore]
EnterDelete(events, caller) ==
    [pc |-> IF events = <<>> THEN "write" ELSE "range", events |-> events, pos |-> 1,
     batch |-> {}, caller |-> caller, clean |-> TRUE,
     second |-> (events # <<>> /\ lastClean = events), snap |-> tlsStore]

\* A report run starts on groups that are past due: no run or cleanup is
\* in flight, and no producer is.
Quiet ==
    /\ gen.pc \in {"idle", "done"} /\ del.pc \in {"idle", "done"}
    /\ \A p \in Procs : sched[p].pc \in {"idle", "ret"}

\* lines 70-116: the run starts on a non-empty list of due events (one per
\* group): the report shell is built and its size is charged to the budget.
GenStart(events) ==
    /\ Quiet
    /\ runs < MaxRuns
    /\ events # <<>>
    /\ gen' = [IdleGen EXCEPT !.pc = "agg", !.events = events, !.i = 1,
                              !.left = SerializeLeft(SerSize.shell, maxSize),
                              !.capHit = ~SerializeFits(SerSize.shell, maxSize)]
    /\ del' = IdleDel
    /\ log' = <<>>
    /\ runs' = runs + 1
    /\ UNCHANGED <<moreVars, clock, rateVars, keyVars, purge, tlsStore, maxSize, test_mode, lastClean>>

\* lines 118-224: one group of the list.  The header read answers (a header,
\* nothing, or a store error); the scan may end in a read or decode error at
\* record `cut` (0: none).  Lines 120-145: the header is used when the read
\* returned Ok(Some) (HeaderUsable_Present: the read error not looked at).
HeaderUsable_Present(headerRead, present) == present
HeaderUsable(headerRead, present) == headerRead = "ok" /\ present

GenGroup(headerRead, cut) ==
    /\ gen.pc = "agg"
    /\ LET g == gen.events[gen.i]
           pc1 == IF gen.i = Len(gen.events) THEN "built" ELSE "agg"
           pl == GroupScan(tlsEvents, g)
           miss == IF headerRead = "error" \/ g \notin DOMAIN tlsHeaders THEN {g} ELSE {}
       IN /\ cut \in 0..Len(pl)
          /\ IF ~HeaderUsable(headerRead, g \in DOMAIN tlsHeaders)
             THEN /\ cut = 0
                  /\ gen' = [gen EXCEPT !.i = @ + 1, !.pc = pc1, !.headless = @ \cup miss]
             ELSE LET tls == tlsHeaders[g]
                      left1 == SerializeLeft(SerSize.header, gen.left)
                      read == IF cut = 0 THEN pl ELSE SubSeq(pl, 1, cut - 1)
                      st == ScanEvents(read, 1,
                                       [map |-> Empty, total_success |-> 0, total_failure |-> 0,
                                        left |-> left1, stop |-> FALSE, counted |-> {}])
                  IN gen' = [gen EXCEPT
                              !.i = @ + 1, !.pc = pc1, !.headless = @ \cup miss,
                              !.left = st.left,
                              !.capHit = @ \/ ~SerializeFits(SerSize.header, gen.left) \/ st.stop,
                              !.cut = @ \/ (cut # 0 /\ ~st.stop),
                              !.policies = Append(@, [policy |-> tls.policy,
                                                      total_success |-> st.total_success,
                                                      total_failure |-> st.total_failure,
                                                      failure_details |-> st.map,
                                                      stored |-> pl,
                                                      visited |-> GroupKeys(tlsEvents, g),
                                                      group |-> g,
                                                      bad |-> IF st.stop THEN 0 ELSE cut,
                                                      counted |-> st.counted]),
                              !.rua = tls.rua]
          /\ log' = Append(log, <<"read", g>>)
    /\ UNCHANGED <<moreVars, clock, rateVars, keyVars, purge, tlsStore, maxSize, test_mode, del, runs, lastClean>>

\* The recipient loop is over when j passes the end of rua.
LoopPc(j, rua) == IF j > Len(rua) THEN "smtp" ELSE "http"

\* lines 226-253: an empty report and a failed compression end in cleanup;
\* otherwise delivery starts.
GenBuilt(compressOk) ==
    /\ gen.pc = "built"
    /\ LET after == AfterBuilt(gen.policies, compressOk)
           outcome == IF gen.policies = <<>> THEN "empty" ELSE "compress"
       IN CASE after = "cleanup" ->
                 /\ gen' = [gen EXCEPT !.pc = "del", !.outcome = outcome]
                 /\ del' = EnterDelete(gen.events, "gen")
                 /\ log' = Append(log, <<"delete">>)
            [] after = "return" ->
                 /\ gen' = [gen EXCEPT !.pc = "done", !.outcome = outcome]
                 /\ UNCHANGED <<del, log>>
            [] OTHER ->
                 /\ gen' = [gen EXCEPT !.pc = LoopPc(1, gen.rua), !.j = 1]
                 /\ UNCHANGED <<del, log>>
    /\ UNCHANGED <<moreVars, clock, rateVars, keyVars, purge, tlsStore, maxSize, test_mode, runs, lastClean>>

\* lines 257-315: one recipient of rua.  A mailbox is collected; for an HTTP
\* endpoint the client is built (or not), the test hook captures the report,
\* or the POST is sent and answered by `response`.
GenRcpt(clientOk, response) ==
    /\ gen.pc = "http"
    /\ LET uri == gen.rua[gen.j]
           next == [gen EXCEPT !.j = @ + 1, !.pc = LoopPc(gen.j + 1, gen.rua)]
           result == IF ~clientOk THEN "nobuild"
                     ELSE IF test_mode /\ uri = TestUri THEN "captured"
                     ELSE response
           after == IF result = "nobuild" THEN "next"
                    ELSE IF result = "captured" THEN "cleanup"
                    ELSE AfterPost(response)
       IN IF IsMail(uri)
          THEN /\ clientOk /\ response = "error"
               /\ gen' = [next EXCEPT !.rcpts = Append(@, uri)]
               /\ UNCHANGED <<del, log>>
          ELSE /\ result # "captured" \/ response = "success"
               /\ result # "nobuild" \/ response = "error"
               /\ IF after = "cleanup"
                  THEN /\ gen' = [gen EXCEPT !.pc = "del", !.outcome = "http"]
                       /\ del' = EnterDelete(gen.events, "gen")
                       /\ log' = log \o << <<"post", uri, result>>, <<"delete">> >>
                  ELSE /\ gen' = next
                       /\ del' = del
                       /\ log' = Append(log, <<"post", uri, result>>)
    /\ UNCHANGED <<moreVars, clock, rateVars, keyVars, purge, tlsStore, maxSize, test_mode, runs, lastClean>>

\* lines 317-362: the mailbox recipients get one message through
\* send_report, or nobody does; cleanup follows.
GenSmtp ==
    /\ gen.pc = "smtp"
    /\ LET msgs == SmtpMessages(gen.rcpts)
       IN log' = log \o [i \in 1..Len(msgs) |-> <<"mail", msgs[i]>>] \o << <<"delete">> >>
    /\ gen' = [gen EXCEPT !.pc = "del",
                          !.outcome = IF gen.rcpts # <<>> THEN "mail" ELSE "norcpt"]
    /\ del' = EnterDelete(gen.events, "gen")
    /\ UNCHANGED <<moreVars, clock, rateVars, keyVars, purge, tlsStore, maxSize, test_mode, runs, lastClean>>

\* delete_tls_report called on its own (it is a public operation).
DelCall(events) ==
    /\ Quiet
    /\ runs < MaxRuns
    /\ events # <<>>
    /\ del' = EnterDelete(events, "direct")
    /\ gen' = IdleGen
    /\ log' = <<>>
    /\ runs' = runs + 1
    /\ UNCHANGED <<moreVars, clock, rateVars, keyVars, purge, tlsStore, maxSize, test_mode, lastClean>>

\* The call returns to its caller.
DelReturn(d, clean) ==
    /\ del' = [d EXCEPT !.pc = "done", !.clean = clean]
    /\ gen' = IF d.caller = "gen" THEN [gen EXCEPT !.pc = "done"] ELSE gen
    /\ lastClean' = IF clean THEN d.events ELSE <<>>

\* lines 484-524: the events of one group are removed with delete_range; a
\* store error ends the call.  The clears of the lock (first event only)
\* and of the header are queued in the batch.
DelRange(ok) ==
    /\ del.pc = "range"
    /\ LET event == del.events[del.pos]
       IN /\ log' = IF del.caller = "gen" THEN Append(log, <<"delete_range", event>>) ELSE log
          /\ IF ok
             THEN /\ tlsEvents' = TlsDeleteRange(tlsEvents, event)
                  /\ del' = [del EXCEPT
                               !.batch = @ \cup (IF del.pos = 1
                                                 THEN {<<"lock", TlsLock(event)>>} ELSE {})
                                         \cup {<<"header", event>>},
                               !.pos = @ + 1,
                               !.pc = IF del.pos = Len(del.events) THEN "write" ELSE "range"]
                  /\ UNCHANGED <<gen, lastClean>>
             ELSE /\ DelReturn(del, FALSE)
                  /\ UNCHANGED tlsEvents
    /\ UNCHANGED <<moreVars, clock, rateVars, keyVars, purge, tlsHeaders, tlsLocks, maxSize, test_mode, runs>>

\* lines 526-533: the batch of clears is written; a store error is logged.
DelWrite(ok) ==
    /\ del.pc = "write"
    /\ log' = IF del.caller = "gen" THEN Append(log, <<"delete_write">>) ELSE log
    /\ IF ok
       THEN /\ tlsHeaders' = Drop(tlsHeaders, {k[2] : k \in {b \in del.batch : b[1] = "header"}})
            /\ tlsLocks' = tlsLocks \ {k[2] : k \in {b \in del.batch : b[1] = "lock"}}
       ELSE UNCHANGED <<tlsHeaders, tlsLocks>>
    /\ DelReturn(del, del.clean /\ ok)
    /\ UNCHANGED <<moreVars, clock, rateVars, keyVars, purge, tlsEvents, maxSize, test_mode, runs>>

\* ----------------------------------------------------------- schedule_tls
\* The rua of the domain's TLSRPT record, as the producer resolved it.
SchedRuas == {<<"h1", "m1">>}
\* What a producer reports: a success or a failure.
SchedPayloads == {None, Some("f1")}

\* queue.snowflake_id.generate(): an id above every id it gave before; its
\* ids are far above any now() in seconds.
SnowflakeBase == 256
NextId(last) == IF last < SnowflakeBase THEN SnowflakeBase ELSE last + 1

\* line 465: generate().unwrap_or_else(now).
SchedSeqId(generated, now) == IF generated # None THEN generated[1] ELSE now

\* lines 377-385: get_value(header).unwrap_or_default().is_none(): a failed
\* read counts as a missing header (HeaderMissing_Always: the check dropped).
HeaderMissing_Always(readOk, present) == TRUE
HeaderMissing_Never(readOk, present) == FALSE
HeaderMissing(readOk, present) == ~readOk \/ ~present

IdleSched == [pc |-> "idle", g |-> Group(1), payload |-> None, rua |-> <<>>,
              missing |-> FALSE, readOk |-> TRUE, stored |-> FALSE, seq |-> 0, path |-> "none"]

\* The groups a report run or a cleanup in flight works on.
GroupsInWork ==
    (IF gen.pc \in {"idle", "done"} THEN {} ELSE {gen.events[i] : i \in 1..Len(gen.events)})
    \cup (IF del.pc \in {"idle", "done"} THEN {} ELSE {del.events[i] : i \in 1..Len(del.events)})

\* lines 365-385: the event's group is computed and its header is looked up.
\* Each producer task reports one event, before the window of its group
\* closes: before any report run or cleanup has begun.
SchedBegin(p, g, payload, rua, readOk) ==
    /\ sched[p].pc = "idle"
    /\ runs = 0
    /\ g \notin GroupsInWork
    /\ sched' = [sched EXCEPT ![p] =
                     [IdleSched EXCEPT !.pc = "id", !.g = g, !.payload = payload, !.rua = rua,
                                       !.readOk = readOk, !.stored = g \in DOMAIN tlsHeaders,
                                       !.missing = HeaderMissing(readOk, g \in DOMAIN tlsHeaders)]]
    /\ UNCHANGED <<extVars, clock, rateVars, keyVars, purge, tlsVars, lastId, commits, assigned, blkVars,
                   dispVars>>

\* lines 387-469: the batch is built: header and lock if the header was
\* missing, and the event under a fresh seq_id.
SchedId(p, generated) ==
    /\ sched[p].pc = "id"
    /\ LET id == IF generated THEN Some(NextId(lastId)) ELSE None
       IN /\ sched' = [sched EXCEPT ![p].pc = "write",
                                    ![p].seq = SchedSeqId(id, clock),
                                    ![p].path = IF generated THEN "generator" ELSE "clock"]
          /\ lastId' = IF generated THEN NextId(lastId) ELSE lastId
          /\ assigned' = Append(assigned, [g |-> sched[p].g, seq |-> SchedSeqId(id, clock),
                                           path |-> IF generated THEN "generator" ELSE "clock"])
    /\ UNCHANGED <<extVars, clock, rateVars, keyVars, purge, tlsVars, commits, blkVars, dispVars>>

\* lines 471-478 with a write that is not one transaction: the failed
\* batch leaves its event behind.
SchedWrite_Partial(p, ok) ==
    /\ sched[p].pc = "write"
    /\ LET c == sched[p]
       IN IF ok
          THEN /\ tlsHeaders' = IF c.missing
                                THEN Put(tlsHeaders, c.g, [rua |-> c.rua, policy |-> c.g.policy_hash])
                                ELSE tlsHeaders
               /\ tlsLocks' = IF c.missing THEN tlsLocks \cup {TlsLock(c.g)} ELSE tlsLocks
               /\ tlsEvents' = Put(tlsEvents, <<c.g, c.seq>>, c.payload)
               /\ commits' = Append(commits, [p |-> p, g |-> c.g, seq |-> c.seq, path |-> c.path,
                                              header |-> c.missing, readOk |-> c.readOk, stored |-> c.stored,
                                              present |-> c.g \in DOMAIN tlsHeaders,
                                              fresh |-> <<c.g, c.seq>> \notin DOMAIN tlsEvents])
          ELSE /\ tlsEvents' = Put(tlsEvents, <<c.g, c.seq>>, c.payload)
               /\ UNCHANGED <<tlsHeaders, tlsLocks, commits>>
    /\ sched' = [sched EXCEPT ![p] = [IdleSched EXCEPT !.pc = "ret"]]
    /\ UNCHANGED <<extVars, clock, rateVars, keyVars, purge, maxSize, test_mode, gen, del, log, runs,
                   lastClean, lastId, assigned, blkVars, dispVars>>

\* lines 471-478: the batch is written in one transaction; a store error is
\* logged and the call returns.
SchedWrite(p, ok) ==
    /\ sched[p].pc = "write"
    /\ LET c == sched[p]
       IN IF ok
          THEN /\ tlsHeaders' = IF c.missing
                                THEN Put(tlsHeaders, c.g, [rua |-> c.rua, policy |-> c.g.policy_hash])
                                ELSE tlsHeaders
               /\ tlsLocks' = IF c.missing THEN tlsLocks \cup {TlsLock(c.g)} ELSE tlsLocks
               /\ tlsEvents' = Put(tlsEvents, <<c.g, c.seq>>, c.payload)
               /\ commits' = Append(commits, [p |-> p, g |-> c.g, seq |-> c.seq, path |-> c.path,
                                              header |-> c.missing, readOk |-> c.readOk, stored |-> c.stored,
                                              present |-> c.g \in DOMAIN tlsHeaders,
                                              fresh |-> <<c.g, c.seq>> \notin DOMAIN tlsEvents])
          ELSE UNCHANGED <<tlsStore, commits>>
    /\ sched' = [sched EXCEPT ![p] = [IdleSched EXCEPT !.pc = "ret"]]
    /\ UNCHANGED <<extVars, clock, rateVars, keyVars, purge, maxSize, test_mode, gen, del, log, runs,
                   lastClean, lastId, assigned, blkVars, dispVars>>

\* ------------------------------------------------------------- BlockedIps
\* IpAddr: a network part and a host part.  IpAddrMask: a network;
\* IpAddrMask::matches holds for the addresses of that network.
Ips == {<<10, 1>>, <<10, 2>>, <<192, 1>>}
Networks == {10, 192}
Matches(network, ip) == ip[1] = network
Logins == {"alice", "bob"}
\* The addresses that sign in.
F2bIps == {<<10, 2>>, <<192, 1>>}

\* The values of server.security.blocked-networks: an address or (with a
\* '/') a network, which parse_key parses or rejects.
ConfigEntries ==
    {[slash |-> FALSE, valid |-> TRUE, val |-> <<10, 1>>],
     [slash |-> FALSE, valid |-> TRUE, val |-> <<192, 1>>],
     [slash |-> TRUE, valid |-> TRUE, val |-> 10],
     [slash |-> FALSE, valid |-> FALSE, val |-> <<0, 0>>]}
Configs == {c \in SUBSET ConfigEntries : Cardinality(c) <= 2}

\* lines 71-80: the addresses and the networks of a configuration.
ConfigAddrs(config) == {e.val : e \in {x \in config : ~x.slash}}
ConfigNets(config) == {e.val : e \in {x \in config : x.slash}}
ConfigParses(config) == \A e \in config : e.valid

\* lines 82-83: has_networks is set when the parsed list is not empty
\* (HasNetworks_Never: the flag left false).
HasNetworks_Never(nets) == FALSE
HasNetworks(nets) == nets # {}

\* is_blocked, lines 120-128.
IsBlocked(ip) ==
    ip \in ip_addresses \/ (has_networks /\ \E network \in ip_networks : Matches(network, ip))

\* The Display form of an address.
IpText(ip) ==
    CASE ip = <<10, 1>> -> "10.0.0.1"
      [] ip = <<10, 2>> -> "10.0.0.2"
      [] ip = <<192, 1>> -> "192.0.0.1"

\* lines 94 and 100: the rate keys format!("b:{}", ip) and
\* format!("b:{}", login).
F2bKey(text) == "b:" \o text

IdleF2b == [pc |-> "idle", ip |-> <<10, 1>>, login |-> "alice", ipOver |-> FALSE,
            loginOver |-> FALSE, loginRan |-> FALSE, err |-> FALSE, result |-> None]
\* History, `old`: the configuration of the last reload that returned Ok.
IdleRel == [pc |-> "idle", config |-> {}, ok |-> FALSE, old |-> {}]

\* reload_blocked_ips, lines 71-80: the configuration is parsed; an entry
\* that does not parse ends the call with Err, nothing stored.
ReloadParse(config) ==
    /\ rel.pc \in {"idle", "ret"}
    /\ blkCalls < MaxBlk
    /\ LET old == IF rel.ok THEN rel.config ELSE rel.old
       IN rel' = IF ConfigParses(config)
                 THEN [pc |-> "flag", config |-> config, ok |-> FALSE, old |-> old]
                 ELSE [pc |-> "ret", config |-> config, ok |-> FALSE, old |-> old]
    /\ blkCalls' = blkCalls + 1
    /\ UNCHANGED <<extVars, clock, rateVars, keyVars, purge, tlsVars, schedVars, dispVars,
                   ip_addresses, ip_networks, has_networks, limiter_rate, f2b, banned>>

\* lines 82-83.
ReloadFlag ==
    /\ rel.pc = "flag"
    /\ has_networks' = HasNetworks(ConfigNets(rel.config))
    /\ rel' = [rel EXCEPT !.pc = "addrs"]
    /\ UNCHANGED <<extVars, clock, rateVars, keyVars, purge, tlsVars, schedVars, dispVars,
                   ip_addresses, ip_networks, limiter_rate, f2b, banned, blkCalls>>

\* line 84: the address set is replaced.
ReloadAddrs ==
    /\ rel.pc = "addrs"
    /\ ip_addresses' = ConfigAddrs(rel.config)
    /\ banned' = {}
    /\ rel' = [rel EXCEPT !.pc = "nets"]
    /\ UNCHANGED <<extVars, clock, rateVars, keyVars, purge, tlsVars, schedVars, dispVars,
                   ip_networks, has_networks, limiter_rate, f2b, blkCalls>>

\* lines 85-87: the network list is swapped in and the call returns Ok.
ReloadNets ==
    /\ rel.pc = "nets"
    /\ ip_networks' = ConfigNets(rel.config)
    /\ rel' = [rel EXCEPT !.pc = "ret", !.ok = TRUE]
    /\ UNCHANGED <<extVars, clock, rateVars, keyVars, purge, tlsVars, schedVars, dispVars,
                   ip_addresses, has_networks, limiter_rate, f2b, banned, blkCalls>>

\* What would a hard rate check on `key` return now: over the limit or not.
WouldDeny(key, r) == RateDecision(GetCounter(Bucket(key, clock, r)) + 1, r, 0) # None

\* lines 104-110: the verdict on the two checks.
F2bBlocks(ipAllowed, loginAllowed) == ~(ipAllowed /\ loginAllowed)

\* is_fail2banned, line 91: without a fail2ban rate the call returns None.
F2bBegin(ip, login) ==
    /\ f2b.pc \in {"idle", "ret"}
    /\ blkCalls < MaxBlk
    /\ f2b' = [IdleF2b EXCEPT !.pc = IF limiter_rate = None THEN "ret" ELSE "ip",
                              !.ip = ip, !.login = login]
    /\ blkCalls' = blkCalls + 1
    /\ UNCHANGED <<extVars, clock, rateVars, keyVars, purge, tlsVars, schedVars, dispVars,
                   ip_addresses, ip_networks, has_networks, limiter_rate, rel, banned>>

\* One is_rate_allowed(key, rate, false) of the call, with no other caller
\* of the limiter: the increment, then the read; `outcome` says which store
\* round trip failed, if any.  The result is whether the check allowed.
\* (F2bCheck_ErrorAllows: unwrap_or(true), a failed check counted as allowed.)
F2bCheck_ErrorAllows(key, outcome, allowedNow) ==
    LET r == limiter_rate[1]
        b == Bucket(key, clock, r)
    IN /\ IF outcome = "incr_err"
          THEN UNCHANGED <<counters, counterExpiry>>
          ELSE /\ counters' = CounterIncrValue(b, 1)
               /\ counterExpiry' = CounterIncrExpiry(b, ExpiresIn(clock, r))
       /\ allowedNow = (outcome # "ok" \/ RateDecision(GetCounter(b) + 1, r, ExpiresIn(clock, r)) = None)
F2bCheck(key, outcome, allowedNow) ==
    LET r == limiter_rate[1]
        b == Bucket(key, clock, r)
    IN /\ IF outcome = "incr_err"
          THEN UNCHANGED <<counters, counterExpiry>>
          ELSE /\ counters' = CounterIncrValue(b, 1)
               /\ counterExpiry' = CounterIncrExpiry(b, ExpiresIn(clock, r))
       /\ allowedNow = (outcome = "ok" /\ RateDecision(GetCounter(b) + 1, r, ExpiresIn(clock, r)) = None)

\* lines 92-103 with & in place of &&: the per-login check made whatever
\* the per-address check said.
F2bIp_Eager(outcome) ==
    /\ f2b.pc = "ip"
    /\ outcome = "ok"
    /\ LET r == limiter_rate[1]
           bi == Bucket(F2bKey(IpText(f2b.ip)), clock, r)
           bl == Bucket(F2bKey(f2b.login), clock, r)
           ipAllowed == RateDecision(GetCounter(bi) + 1, r, ExpiresIn(clock, r)) = None
           loginAllowed == RateDecision(GetCounter(bl) + 1, r, ExpiresIn(clock, r)) = None
           blocks == F2bBlocks(ipAllowed, loginAllowed)
       IN /\ counters' = Put(Put(counters, bi, GetCounter(bi) + 1), bl, GetCounter(bl) + 1)
          /\ counterExpiry' = Put(Put(counterExpiry, bi, clock + ExpiresIn(clock, r)),
                                  bl, clock + ExpiresIn(clock, r))
          /\ f2b' = [f2b EXCEPT !.pc = "ret", !.ipOver = ~ipAllowed, !.loginOver = ~loginAllowed,
                                !.result = IF blocks THEN Some(f2b.ip) ELSE None]
          /\ ip_addresses' = IF blocks THEN ip_addresses \cup {f2b.ip} ELSE ip_addresses
          /\ banned' = IF blocks THEN banned \cup {f2b.ip} ELSE banned
    /\ UNCHANGED <<extVars, clock, rate, rl, calls, begun, committed, allowed, keyVars, purge, tlsVars,
                   schedVars, dispVars, ip_networks, has_networks, limiter_rate, rel, blkCalls>>

\* lines 92-97 and 104-110: the per-address check; if it did not allow, the
\* per-login check is not made and the address is blocked.
F2bIp(outcome) ==
    /\ f2b.pc = "ip"
    /\ \E allowedNow \in BOOLEAN :
          /\ F2bCheck(F2bKey(IpText(f2b.ip)), outcome, allowedNow)
          /\ LET loginOver == WouldDeny(F2bKey(f2b.login), limiter_rate[1])
                 blocks == F2bBlocks(allowedNow, ~loginOver)
             IN IF allowedNow
                THEN /\ f2b' = [f2b EXCEPT !.pc = "login"]
                     /\ UNCHANGED <<ip_addresses, banned>>
                ELSE /\ f2b' = [f2b EXCEPT !.pc = "ret", !.ipOver = (outcome = "ok"),
                                           !.loginOver = loginOver, !.err = (outcome # "ok"),
                                           !.result = IF blocks THEN Some(f2b.ip) ELSE None]
                     /\ ip_addresses' = IF blocks THEN ip_addresses \cup {f2b.ip} ELSE ip_addresses
                     /\ banned' = IF blocks THEN banned \cup {f2b.ip} ELSE banned
    /\ UNCHANGED <<extVars, clock, rate, rl, calls, begun, committed, allowed, keyVars, purge, tlsVars,
                   schedVars, dispVars, ip_networks, has_networks, limiter_rate, rel, blkCalls>>

\* lines 98-110: the per-login check and the verdict.
F2bLogin(outcome) ==
    /\ f2b.pc = "login"
    /\ \E allowedNow \in BOOLEAN :
          /\ F2bCheck(F2bKey(f2b.login), outcome, allowedNow)
          /\ LET blocks == F2bBlocks(TRUE, allowedNow)
             IN /\ f2b' = [f2b EXCEPT !.pc = "ret", !.loginRan = TRUE,
                                      !.loginOver = (outcome = "ok" /\ ~allowedNow),
                                      !.err = (outcome # "ok"),
                                      !.result = IF blocks THEN Some(f2b.ip) ELSE None]
                /\ ip_addresses' = IF blocks THEN ip_addresses \cup {f2b.ip} ELSE ip_addresses
                /\ banned' = IF blocks THEN banned \cup {f2b.ip} ELSE banned
    /\ UNCHANGED <<extVars, clock, rate, rl, calls, begun, committed, allowed, keyVars, purge, tlsVars,
                   schedVars, dispVars, ip_networks, has_networks, limiter_rate, rel, blkCalls>>

\* ------------------------------------------------- the backend variants
\* LookupStore::Store, LookupStore::Query and LookupStore::Memory.
Backends == {"Store", "Query", "Memory"}
LookupOps == {"key_set", "key_get", "key_exists", "key_delete", "counter_incr",
              "counter_get", "counter_delete", "purge_expired", "query"}
DispKeys == {"k", "ip"}

\* The match arms of LookupStore::Memory: what the call returns and whether
\* the operation was carried out.
MemoryArm(op) ==
    CASE op \in {"key_get", "key_exists"} -> [result |-> "Ok", performed |-> TRUE]
      [] op = "purge_expired" -> [result |-> "Ok", performed |-> FALSE]
      [] OTHER -> [result |-> "Unsupported", performed |-> FALSE]

\* The match arms of LookupStore::Query: reads run the lookup's query;
\* key_set runs it too, with the key alone, and maps its result to Ok(()).
QueryArm(op) ==
    CASE op \in {"key_get", "key_exists"} -> [result |-> "Ok", performed |-> TRUE]
      [] op \in {"key_set", "purge_expired"} -> [result |-> "Ok", performed |-> FALSE]
      [] OTHER -> [result |-> "Unsupported", performed |-> FALSE]

IdleDisp == [op |-> "none", key |-> "k", result |-> "Ok", performed |-> FALSE, found |-> FALSE]

\* A call on a variant other than Store: nothing is written.
LookupCall(op, key) ==
    /\ backend # "Store"
    /\ LET arm == IF backend = "Memory" THEN MemoryArm(op) ELSE QueryArm(op)
       IN disp' = [op |-> op, key |-> key, result |-> arm.result, performed |-> arm.performed,
                   found |-> arm.performed /\ key \in memory]
    /\ UNCHANGED <<extVars, clock, rateVars, keyVars, purge, tlsVars, schedVars, blkVars, backend, memory>>


\* ------------------------------------------------------------ spawn_worker
\* What the submitted closure does: returns Ok or Err, panics, or never
\* returns.
Closures == {"ok_x", "ok_y", "err", "panic", "hang"}
ClosureResult(f) ==
    CASE f = "ok_x" -> "Ok(x)"
      [] f = "ok_y" -> "Ok(y)"
      [] f = "err" -> "Err(e)"
WorkerFailed == "InternalError(Worker thread failed)"

\* sent: the oneshot channel's value; closed: the sender is gone.
IdleWork == [pc |-> "idle", f |-> "ok_x", sent |-> None, closed |-> FALSE, result |-> None]

\* spawn_worker, lines 115-121: the channel is made, the closure is handed
\* to the pool and the caller awaits the receiver.
WorkerSpawn(p, f) ==
    /\ work[p].pc \in {"idle", "ret"}
    /\ work' = [work EXCEPT ![p] = [IdleWork EXCEPT !.pc = "queued", !.f = f]]
    /\ UNCHANGED <<clock, rateVars, keyVars, purge, tlsVars, schedVars, blkVars, dispVars, auth, pb, cacheVars>>

\* lines 117-119: a pool thread runs the closure to its end: tx.send(f()),
\* or, when f panics, the unwinding drops tx unsent.
WorkerRun(p) ==
    /\ work[p].pc = "queued"
    /\ work[p].f # "hang"
    /\ work' = [work EXCEPT ![p].pc = "done",
                            ![p].sent = IF work[p].f = "panic" THEN None
                                        ELSE Some(ClosureResult(work[p].f)),
                            ![p].closed = TRUE]
    /\ UNCHANGED <<clock, rateVars, keyVars, purge, tlsVars, schedVars, blkVars, dispVars, auth, pb, cacheVars>>

\* lines 121-127: rx.await resolves: Ok(result) is the closure's result, a
\* closed channel becomes the InternalError (WorkerRecv_OnlyOk: the
\* closed channel left unhandled).
WorkerRecv_OnlyOk(p) ==
    /\ work[p].pc = "done"
    /\ work[p].sent # None
    /\ work' = [work EXCEPT ![p].pc = "ret", ![p].result = work[p].sent]
    /\ UNCHANGED <<clock, rateVars, keyVars, purge, tlsVars, schedVars, blkVars, dispVars, auth, pb, cacheVars>>
WorkerRecv(p) ==
    /\ work[p].pc = "done"
    /\ work[p].sent # None \/ work[p].closed
    /\ work' = [work EXCEPT ![p].pc = "ret",
                            ![p].result = IF work[p].sent # None THEN work[p].sent
                                          ELSE Some(WorkerFailed)]
    /\ UNCHANGED <<clock, rateVars, keyVars, purge, tlsVars, schedVars, blkVars, dispVars, auth, pb, cacheVars>>

\* ------------------------------------------------- authenticate_headers
\* What the directory answers to authenticate().
DirResults == {"success", "failure", "banned", "error"}

\* authenticate_plain, lines 189-197: the hard check runs on
\* Ok(AuthResult::Failure) (AuthHardRuns_OnError: on a directory error too).
AuthHardRuns_OnError(dir) == dir \in {"failure", "error"}
AuthHardRuns(dir) == dir = "failure"

\* lines 189-197: what authenticate_plain returns.
AuthPlainResult(dir) == IF dir = "error" THEN "failure" ELSE dir

\* is_auth_allowed_soft / is_auth_allowed_hard: the limiter on the key of
\* the remote address, soft_check true / false.
AuthSoftDenies(addr) ==
    RateDecision(GetCounter(Bucket(addr, clock, rate)) + 1, rate, ExpiresIn(clock, rate)) # None

IdleAuth == [pc |-> "idle", addr |-> "ip", decodes |-> TRUE, dir |-> "none", hard |-> 0,
             before |-> Empty, at |-> 0, result |-> "none"]

\* authenticate_headers, lines 53-56: a Basic request with no cached
\* session; the soft check ends the call when the address is over its limit.
AuthBegin(addr, decodes) ==
    /\ auth.pc \in {"idle", "ret"}
    /\ calls < MaxCalls
    /\ auth' = [IdleAuth EXCEPT !.pc = IF AuthSoftDenies(addr) THEN "ret" ELSE "decode",
                                !.addr = addr, !.decodes = decodes, !.before = counters,
                                !.result = IF AuthSoftDenies(addr) THEN "limited" ELSE "none"]
    /\ calls' = calls + 1
    /\ UNCHANGED <<clock, rate, counters, counterExpiry, rl, begun, committed, allowed, keyVars,
                   purge, tlsVars, schedVars, blkVars, dispVars, work, pb, cacheVars>>

\* lines 58-82 and 180-199: the credentials are decoded and the directory
\* is asked; on AuthResult::Failure the hard check counts the attempt (its
\* result is dropped).
AuthVerify(dir) ==
    /\ auth.pc = "decode"
    /\ IF ~auth.decodes
       THEN /\ dir = "error"
            /\ auth' = [auth EXCEPT !.pc = "ret", !.result = "undecodable"]
            /\ UNCHANGED <<counters, counterExpiry>>
       ELSE /\ auth' = [auth EXCEPT !.pc = "ret", !.dir = dir, !.at = clock,
                                    !.hard = IF AuthHardRuns(dir) THEN 1 ELSE 0,
                                    !.result = AuthPlainResult(dir)]
            /\ IF AuthHardRuns(dir)
               THEN LET b == Bucket(auth.addr, clock, rate)
                    IN /\ counters' = CounterIncrValue(b, 1)
                       /\ counterExpiry' = CounterIncrExpiry(b, ExpiresIn(clock, rate))
               ELSE UNCHANGED <<counters, counterExpiry>>
    /\ UNCHANGED <<clock, rate, rl, calls, begun, committed, allowed, keyVars,
                   purge, tlsVars, schedVars, blkVars, dispVars, work, pb, cacheVars>>

\* ------------------------------ authenticate_headers: every mechanism
\* The Authorization header of a request: its mechanism ("none": no header,
\* or one that does not split) and its token.
Mechanisms == {"basic", "bearer", "other", "none"}
Tokens == {"t1", "t2"}
\* The account a token stands for.
AccountOf == [t1 |-> 1, t2 |-> 2]

\* TtlMap::get_with_ttl: the entry, if it has not expired.
TtlValid(map, k, now) == k \in DOMAIN map /\ map[k].expires > now

\* lines 55, 83, 98, 117: the limiter consulted before any verification
\* (PreAuthLimiter_Anonymous: the anonymous limiter for Basic too).
PreAuthLimiter_Anonymous(mech) == "is_anonymous_allowed"
PreAuthLimiter(mech) ==
    IF mech = "basic" THEN "is_auth_allowed_soft" ELSE "is_anonymous_allowed"

\* What the verification of a request can come to: Basic credentials that
\* do not decode or the answer of the directory (lines 58-80), a Bearer
\* token that does not validate, or validates with or without an account
\* behind it (lines 85-95).
VerifyOutcomes(mech) ==
    IF mech = "basic" THEN {"undecodable"} \cup DirResults
    ELSE {"invalid", "valid_found", "valid_missing"}
\* lines 66-72 and 85-86: an access token came out of it.
HasAccessToken(outcome) == outcome \in {"success", "valid_found"}
\* The credentials or the token were found good.
Verified(outcome) == outcome \in {"success", "valid_found", "valid_missing"}

IdleHdr == [pc |-> "idle", mech |-> "none", token |-> "t1", hit |-> FALSE, account |-> 0,
            before |-> <<Empty, Empty>>, calls |-> <<>>, verified |-> FALSE,
            result |-> "none"]

\* lines 43-52: the header is split and the token looked up in the session
\* cache.
HdrBegin(mech, token) ==
    /\ hdr.pc \in {"idle", "ret"}
    /\ calls < MaxCalls
    /\ LET hit == mech # "none" /\ TtlValid(sessions, token, clock)
       IN hdr' = [IdleHdr EXCEPT !.pc = IF hit THEN "token" ELSE "limit",
                                 !.mech = mech, !.token = token, !.hit = hit,
                                 !.account = IF hit THEN sessions[token].account ELSE 0,
                                 !.before = <<sessions, access_tokens>>]
    /\ calls' = calls + 1
    /\ UNCHANGED <<clock, rate, counters, counterExpiry, rl, begun, committed, allowed, keyVars,
                   purge, tlsVars, schedVars, blkVars, dispVars, work, auth, pb, sessions,
                   access_tokens>>

\* lines 50 and 140-151, get_cached_access_token: the cached access token
\* of the account, or one built from the directory and cached.
HdrCached(found) ==
    /\ hdr.pc = "token"
    /\ IF TtlValid(access_tokens, hdr.account, clock)
       THEN /\ found
            /\ hdr' = [hdr EXCEPT !.pc = "account"]
            /\ UNCHANGED access_tokens
       ELSE IF found
       THEN /\ access_tokens' = Put(access_tokens, hdr.account,
                                    [expires |-> clock + SessionCacheTtl])
            /\ hdr' = [hdr EXCEPT !.pc = "account", !.calls = Append(@, "cache_access_token")]
       ELSE /\ hdr' = [hdr EXCEPT !.pc = "ret", !.result = "none"]
            /\ UNCHANGED access_tokens
    /\ UNCHANGED <<clock, rateVars, keyVars, purge, tlsVars, schedVars, blkVars, dispVars, work,
                   auth, pb, sessions>>

\* lines 55, 83, 98, 117: the limiter is consulted; `?` returns its error.
\* The soft check of Basic is the limiter on the remote address.
HdrLimit(limited) ==
    /\ hdr.pc = "limit"
    /\ hdr.mech = "basic" => (limited <=> AuthSoftDenies("ip"))
    /\ hdr' = [hdr EXCEPT !.calls = Append(@, PreAuthLimiter(hdr.mech)),
                          !.pc = IF ~limited /\ hdr.mech \in {"basic", "bearer"}
                                 THEN "verify" ELSE "ret",
                          !.result = IF limited THEN "limited" ELSE "none"]
    /\ UNCHANGED <<clock, rateVars, keyVars, purge, tlsVars, schedVars, blkVars, dispVars, work,
                   auth, pb, sessions, access_tokens>>

\* lines 57-106: the credentials or the token are verified (a Basic failure
\* is counted by the hard check, line 194); an access token is cached with
\* its session (lines 101-106, 124-138).
HdrVerify(outcome) ==
    /\ hdr.pc = "verify"
    /\ outcome \in VerifyOutcomes(hdr.mech)
    /\ LET how == IF outcome = "undecodable" THEN <<>>
                  ELSE IF hdr.mech = "basic" THEN <<"authenticate">>
                  ELSE <<"validate_access_token">>
           account == AccountOf[hdr.token]
       IN IF HasAccessToken(outcome)
          THEN /\ sessions' = Put(sessions, hdr.token,
                                  [account |-> account, expires |-> clock + SessionCacheTtl])
               /\ access_tokens' = Put(access_tokens, account,
                                       [expires |-> clock + SessionCacheTtl])
               /\ hdr' = [hdr EXCEPT !.pc = "account", !.account = account,
                                     !.verified = Verified(outcome),
                                     !.calls = @ \o how \o <<"cache_session", "cache_access_token">>]
          ELSE /\ hdr' = [hdr EXCEPT !.pc = "ret", !.result = "none",
                                     !.verified = Verified(outcome), !.calls = @ \o how]
               /\ UNCHANGED <<sessions, access_tokens>>
    /\ IF hdr.mech = "basic" /\ outcome # "undecodable" /\ AuthHardRuns(outcome)
       THEN LET b == Bucket("ip", clock, rate)
            IN /\ counters' = CounterIncrValue(b, 1)
               /\ counterExpiry' = CounterIncrExpiry(b, ExpiresIn(clock, rate))
       ELSE UNCHANGED <<counters, counterExpiry>>
    /\ UNCHANGED <<clock, rate, rl, calls, begun, committed, allowed, keyVars, purge, tlsVars,
                   schedVars, blkVars, dispVars, work, auth, pb>>

\* lines 109-114: the authenticated limiter has the last word on a session.
HdrAccount(limited) ==
    /\ hdr.pc = "account"
    /\ hdr' = [hdr EXCEPT !.pc = "ret", !.calls = Append(@, "is_account_allowed"),
                          !.result = IF limited THEN "account_limited" ELSE "session"]
    /\ UNCHANGED <<clock, rateVars, keyVars, purge, tlsVars, schedVars, blkVars, dispVars, work,
                   auth, pb, sessions, access_tokens>>

\* ------------------------------------------- purge_expired: the batches
\* lines 318 and 357: a batch is written once it holds this many operations.
BatchOps == 1000

\* How many expired entries a scan has collected.
PurgeLoads == {0, 1, 499, 500, 501, 999, 1000, 1001}

\* A batch, by the number of clears of each class it holds.
NoOps == [key |-> 0, counter |-> 0, expiry |-> 0]
OpsLen(batch) == batch.key + batch.counter + batch.expiry

\* lines 314-317 and 349-356: the clears pushed for one expired entry: the
\* key, or the counter and then its expiry record.
PushClears(batch, kind) ==
    IF kind = "keys" THEN [batch EXCEPT !.key = @ + 1]
    ELSE [batch EXCEPT !.counter = @ + 1, !.expiry = @ + 1]

\* lines 318 and 357: batch.ops.len() >= 1000 (BatchFull_Late: > 1000).
BatchFull_Late(batch) == OpsLen(batch) > BatchOps
BatchFull(batch) == OpsLen(batch) >= BatchOps

IdleBatch == [pc |-> "idle", kind |-> "keys", n |-> 0, todo |-> 0, open |-> NoOps,
              written |-> <<>>, err |-> FALSE]

\* lines 311-312 and 346-347: the loop is entered when the scan collected
\* something.
BatchStart(kind, n) ==
    /\ pb.pc \in {"idle", "done"}
    /\ pb' = [IdleBatch EXCEPT !.pc = IF n = 0 THEN "done" ELSE "loop", !.kind = kind,
                               !.n = n, !.todo = n]
    /\ UNCHANGED <<clock, rateVars, keyVars, purge, tlsVars, schedVars, blkVars, dispVars, work, auth, cacheVars>>

\* lines 313-322 and 348-361: one turn of the loop: the clears of an entry
\* are pushed, then a full batch is written (`?`: a store error ends the
\* purge) and a new one begun.
BatchPush(ok) ==
    /\ pb.pc = "loop"
    /\ LET batch == PushClears(pb.open, pb.kind)
           pc1 == IF pb.todo = 1 THEN "final" ELSE "loop"
       IN IF BatchFull(batch)
          THEN pb' = IF ok
                     THEN [pb EXCEPT !.written = Append(@, batch), !.open = NoOps,
                                     !.todo = @ - 1, !.pc = pc1]
                     ELSE [pb EXCEPT !.open = batch, !.pc = "done", !.err = TRUE]
          ELSE /\ ok
               /\ pb' = [pb EXCEPT !.open = batch, !.todo = @ - 1, !.pc = pc1]
    /\ UNCHANGED <<clock, rateVars, keyVars, purge, tlsVars, schedVars, blkVars, dispVars, work, auth, cacheVars>>

\* lines 323-325 and 362-364: what is left in the batch is written.
BatchFinal(ok) ==
    /\ pb.pc = "final"
    /\ IF OpsLen(pb.open) = 0
       THEN /\ ok
            /\ pb' = [pb EXCEPT !.pc = "done"]
       ELSE pb' = IF ok
                  THEN [pb EXCEPT !.written = Append(@, pb.open), !.open = NoOps, !.pc = "done"]
                  ELSE [pb EXCEPT !.pc = "done", !.err = TRUE]
    /\ UNCHANGED <<clock, rateVars, keyVars, purge, tlsVars, schedVars, blkVars, dispVars, work, auth, cacheVars>>

\* Wall-clock time passes.
Tick ==
    /\ clock < MaxTime
    /\ clock' = clock + 1
    /\ UNCHANGED <<rate, counters, counterExpiry, rl, calls, begun, committed, allowed, keyVars, purge, tlsVars, moreVars>>

LookupInit ==
    /\ clock = 0
    /\ rate \in Rates
    /\ counters = Empty
    /\ counterExpiry = Empty
    /\ rl = [p \in Procs |-> IdleCall]
    /\ calls = 0
    /\ begun = Empty
    /\ committed = Empty
    /\ allowed = Empty
    /\ keys = Empty
    /\ kv = [p \in Procs |-> IdleOp]
    /\ ops = 0
    /\ purge = IdlePurge

\* No report is stored and none is being generated.
TlsIdle ==
    /\ tlsHeaders = Empty
    /\ tlsLocks = {}
    /\ tlsEvents = Empty
    /\ maxSize = DefaultMaxSize
    /\ test_mode = FALSE
    /\ gen = IdleGen
    /\ del = IdleDel
    /\ log = <<>>
    /\ runs = 0
    /\ lastClean = <<>>

\* No producer, no BlockedIps call and no dispatched call is in flight.
SchedIdle ==
    /\ sched = [p \in Procs |-> IdleSched]
    /\ lastId = 0
    /\ commits = <<>>
    /\ assigned = <<>>
BlkIdle ==
    /\ ip_addresses = {}
    /\ ip_networks = {}
    /\ has_networks = FALSE
    /\ limiter_rate = None
    /\ f2b = IdleF2b
    /\ rel = IdleRel
    /\ banned = {}
    /\ blkCalls = 0
DispIdle ==
    /\ backend = "Store"
    /\ memory = {}
    /\ disp = IdleDisp
ExtIdle ==
    /\ work = [p \in Procs |-> IdleWork]
    /\ auth = IdleAuth
    /\ pb = IdleBatch
    /\ sessions = Empty
    /\ access_tokens = Empty
    /\ hdr = IdleHdr
MoreIdle == SchedIdle /\ BlkIdle /\ DispIdle /\ ExtIdle

Init == LookupInit /\ TlsIdle /\ MoreIdle

Next ==
    \/ Tick
    \/ \E p \in Procs, key \in RateKeys, soft \in BOOLEAN : RateBegin(p, key, soft)
    \/ \E p \in Procs : RateIncr(p)
    \/ \E p \in Procs : RateFetch(p)
    \/ \E p \in Procs : RatePeek(p)

Spec == Init /\ [][Next]_vars

\* The TTL'd keys under concurrent readers, writers and the sweeper.
NextKey ==
    \/ Tick
    \/ \E p \in Procs, key \in LookupKeys, value \in Values, ttl \in Ttls :
          KeySetBegin(p, key, value, ttl)
    \/ \E p \in Procs : KeySetWrite(p)
    \/ \E p \in Procs, key \in LookupKeys : KeyDelete(p, key)
    \/ \E p \in Procs, op \in {"get", "exists"}, key \in LookupKeys : KeyReadFetch(p, op, key)
    \/ \E p \in Procs : KeyReadDeser(p)
    \/ PurgeScanKeys
    \/ PurgeDelKeys
    \/ PurgeScanCounters
    \/ PurgeDelCounters

\* No rate limiter runs here: its configuration is pinned to one value.
InitKey == Init /\ rate.requests = 1

SpecKey == InitKey /\ [][NextKey]_vars

\* Hard checks of one key across periods, and one run of the sweeper.
NextWindow ==
    \/ Tick
    \/ \E p \in Procs : RateBegin(p, "ip", FALSE)
    \/ \E p \in Procs : RateIncr(p)
    \/ \E p \in Procs : RateFetch(p)
    \/ ~purge.done /\ PurgeScanKeys
    \/ PurgeDelKeys
    \/ PurgeScanCounters
    \/ PurgeDelCounters

SpecWindow == InitKey /\ [][NextWindow]_vars

\* Every variant: the calls on Query and Memory, and on Store the key
\* operations and the sweeper.
NextBackend ==
    \/ \E op \in LookupOps, key \in DispKeys : LookupCall(op, key)
    \/ backend = "Store" /\ NextKey

InitBackend ==
    /\ LookupInit /\ rate.requests = 1
    /\ TlsIdle /\ SchedIdle /\ BlkIdle /\ ExtIdle
    /\ backend \in Backends
    /\ memory \in SUBSET DispKeys
    /\ backend = "Store" => memory = {}
    /\ disp = IdleDisp
SpecBackend == InitBackend /\ [][NextBackend]_vars

\* spawn_worker: the pool runs what it is handed and the runtime polls a
\* caller whose receiver is ready.
NextWorker ==
    \/ \E p \in Procs, f \in Closures : WorkerSpawn(p, f)
    \/ \E p \in Procs : WorkerRun(p)
    \/ \E p \in Procs : WorkerRecv(p)

SpecWorker ==
    /\ InitKey
    /\ [][NextWorker]_vars
    /\ \A p \in Procs : WF_vars(WorkerRun(p)) /\ WF_vars(WorkerRecv(p))

\* Basic authentication attempts from two addresses.
NextAuth ==
    \/ Tick
    \/ \E addr \in RateKeys, decodes \in BOOLEAN : AuthBegin(addr, decodes)
    \/ \E dir \in DirResults : AuthVerify(dir)

SpecAuth == Init /\ [][NextAuth]_vars

\* Requests of every mechanism against the session caches.
NextHeaders ==
    \/ Tick
    \/ \E mech \in Mechanisms, token \in Tokens : HdrBegin(mech, token)
    \/ \E found \in BOOLEAN : HdrCached(found)
    \/ \E limited \in BOOLEAN : HdrLimit(limited)
    \/ \E outcome \in VerifyOutcomes("basic") \cup VerifyOutcomes("bearer") : HdrVerify(outcome)
    \/ \E limited \in BOOLEAN : HdrAccount(limited)

SpecHeaders == Init /\ [][NextHeaders]_vars

\* The clear loops of the sweeper on what a scan collected.
NextBatch ==
    \/ \E kind \in {"keys", "counters"}, n \in PurgeLoads : BatchStart(kind, n)
    \/ \E ok \in BOOLEAN : BatchPush(ok)
    \/ \E ok \in BOOLEAN : BatchFinal(ok)

SpecBatch == InitKey /\ [][NextBatch]_vars

\* Counters written with a ttl, deleted and swept.
NextCounter ==
    \/ Tick
    \/ \E b \in CounterKeys, ttl \in Ttls \ {None} : CounterIncr(b, 1, ttl)
    \/ \E b \in CounterKeys : CounterDelete(b)
    \/ PurgeScanKeys
    \/ PurgeDelKeys
    \/ PurgeScanCounters
    \/ PurgeDelCounters

SpecCounter == InitKey /\ [][NextCounter]_vars

\* The sweeper alone on a store that callers have filled at time 0: keys
\* with a ttl or without, and counters of the limiter.
PurgeKeys == {"k", "", FfKey}
PurgeCounters == {<<"ip", 0>>, <<FfKey, 0>>}
StoredKeys ==
    UNION {[S -> {KeyEntry("x", ttl, 0) : ttl \in {None, Some(1)}}] : S \in SUBSET PurgeKeys}
InitPurge ==
    /\ clock = 0
    /\ rate = [requests |-> 1, period |-> 2]
    /\ keys \in StoredKeys
    /\ \E S \in SUBSET PurgeCounters :
          /\ counters = [b \in S |-> 1]
          /\ counterExpiry = [b \in S |-> 1]
    /\ rl = [p \in Procs |-> IdleCall]
    /\ calls = 0 /\ begun = Empty /\ committed = Empty /\ allowed = Empty
    /\ kv = [p \in Procs |-> IdleOp]
    /\ ops = 0 /\ purge = IdlePurge
    /\ TlsIdle /\ MoreIdle

NextPurge ==
    \/ Tick
    \/ PurgeScanKeys
    \/ PurgeDelKeys
    \/ PurgeScanCounters
    \/ PurgeDelCounters

SpecPurge == InitPurge /\ [][NextPurge]_vars

\* ------------------------------------------------- the report pipeline
PayloadSeqs == UNION {[1..n -> Payloads] : n \in 1..MaxEvents}
EventLists == {<<g>> : g \in Groups} \cup {<<g, h>> : <<g, h>> \in {x \in Groups \X Groups : x[1] # x[2]}}
MaxSizes == {6, DefaultMaxSize}
RuaLists == {<<>>, <<"h1">>, <<"m1">>, <<"h1", "m1">>, <<"m1", "h1">>, <<"h1", "h2">>,
             <<"m1", "h1", "m2", "h2">>, <<TestUri, "m1">>, <<"h1", TestUri>>}

\* What schedule_tls has stored (lines 451-469): for each group that has
\* events, its header, its events under ascending sequence ids, and the
\* lock marker.  The rua is that of the domain's TLSRPT record.
TlsStored(ruas, seqs) ==
    \E stored \in SUBSET Groups, rua \in ruas, pls \in [Groups -> seqs] :
        /\ tlsHeaders = [g \in stored |-> [rua |-> rua, policy |-> g.policy_hash]]
        /\ tlsLocks = {TlsLock(g) : g \in stored}
        /\ tlsEvents = [k \in UNION {{<<g, n>> : n \in 1..Len(pls[g])} : g \in stored}
                          |-> pls[k[1]][k[2]]]

TlsInit(ruas, seqs, sizes, modes) ==
    /\ LookupInit
    /\ rate.requests = 1
    /\ TlsStored(ruas, seqs)
    /\ maxSize \in sizes
    /\ test_mode \in modes
    /\ gen = IdleGen
    /\ del = IdleDel
    /\ log = <<>>
    /\ runs = 0
    /\ lastClean = <<>>
    /\ MoreIdle

NextTls ==
    \/ \E events \in EventLists : GenStart(events)
    \/ \E headerRead \in {"ok", "error"}, cut \in 0..MaxEvents : GenGroup(headerRead, cut)
    \/ \E compressOk \in BOOLEAN : GenBuilt(compressOk)
    \/ \E clientOk \in BOOLEAN, response \in {"success", "status", "error"} :
          GenRcpt(clientOk, response)
    \/ GenSmtp
    \/ \E events \in EventLists : DelCall(events)
    \/ \E ok \in BOOLEAN : DelRange(ok)
    \/ \E ok \in BOOLEAN : DelWrite(ok)

\* Aggregation: every stored content of the groups, one recipient list.
InitTls == TlsInit({<<"h1", "m1">>}, PayloadSeqs, MaxSizes, {FALSE})
SpecTls == InitTls /\ [][NextTls]_vars

\* Producers racing on an empty store, then one aggregation or one cleanup
\* (the clock is read by the producers only).
NextSched ==
    \/ runs = 0 /\ Tick
    \/ \E p \in Procs, g \in Groups, payload \in SchedPayloads, rua \in SchedRuas,
          readOk \in BOOLEAN :
          SchedBegin(p, g, payload, rua, readOk)
    \/ \E p \in Procs, generated \in BOOLEAN : SchedId(p, generated)
    \/ \E p \in Procs, ok \in BOOLEAN : SchedWrite(p, ok)
    \/ \E events \in EventLists : runs = 0 /\ GenStart(events)
    \/ \E headerRead \in {"ok", "error"}, cut \in 0..MaxEvents : GenGroup(headerRead, cut)
    \/ \E events \in EventLists : runs = 0 /\ DelCall(events)
    \/ \E ok \in BOOLEAN : DelRange(ok)
    \/ \E ok \in BOOLEAN : DelWrite(ok)

InitSched == Init /\ rate.requests = 1
SpecSched == InitSched /\ [][NextSched]_vars

\* BlockedIps: reloads and fail2ban checks, with or without a fail2ban rate
\* (BlockedIps::reload has stored it, line 62).
NextBlocked ==
    \/ Tick
    \/ \E config \in Configs : ReloadParse(config)
    \/ ReloadFlag
    \/ ReloadAddrs
    \/ ReloadNets
    \/ \E ip \in F2bIps, login \in Logins : F2bBegin(ip, login)
    \/ \E outcome \in {"ok", "incr_err", "get_err"} : F2bIp(outcome)
    \/ \E outcome \in {"ok", "incr_err", "get_err"} : F2bLogin(outcome)

InitBlocked ==
    /\ LookupInit /\ rate.requests = 1
    /\ TlsIdle /\ SchedIdle /\ DispIdle /\ ExtIdle
    /\ ip_addresses = {} /\ ip_networks = {} /\ has_networks = FALSE
    /\ limiter_rate \in {None, Some([requests |-> 1, period |-> 2])}
    /\ f2b = IdleF2b /\ rel = IdleRel /\ banned = {} /\ blkCalls = 0
SpecBlocked == InitBlocked /\ [][NextBlocked]_vars

\* Delivery and cleanup: every recipient list, one content per group.
InitDeliver == TlsInit(RuaLists, {<<Some("f1"), None>>}, {DefaultMaxSize}, BOOLEAN)
SpecDeliver == InitDeliver /\ [][NextTls]_vars

\* ------------------------------------------------- claims: the rate limiter

\* What a hard call issued now, with no other caller, would return for `key`.
HardVerdict(key) ==
    RateDecision(GetCounter(Bucket(key, clock, rate)) + 1, rate, ExpiresIn(clock, rate))

\* A step of a soft call of p: its first statement or its counter read.
SoftStep(p) == rl'[p].pc # rl[p].pc /\ rl'[p].soft

\* C1: in a bucket that starts with no counter, the k-th hard call made with
\* no other caller in flight returns None for k <= N, and the (N+1)-th
\* returns Some(period_end - now), period_end = (now / P) * P + P.
C1_SequentialLimit ==
    \A p \in Procs :
        (rl[p].pc = "ret" /\ ~rl[p].soft /\ rl[p].alone) =>
            /\ rl[p].k <= rate.requests => rl[p].result = None
            /\ rl[p].k = rate.requests + 1 =>
                 rl[p].result =
                   Some((((rl[p].now \div rate.period) * rate.period) + rate.period) - rl[p].now)

\* C1 witness: the (N+1)-th sequential call of a bucket has returned a denial.
C1_Witness ==
    \E p \in Procs :
        /\ rl[p].pc = "ret" /\ ~rl[p].soft /\ rl[p].alone
        /\ rl[p].k = rate.requests + 1
        /\ rl[p].result # None

\* C2: no step of a soft check changes a counter or an expiry record, so
\* the result a hard call would return right after it is the one it would
\* have returned before it.
C2_SoftNeverMutates ==
    [][\A p \in Procs :
          SoftStep(p) =>
              /\ counters' = counters
              /\ counterExpiry' = counterExpiry
              /\ \A key \in RateKeys : HardVerdict(key)' = HardVerdict(key)]_vars

\* C2 witness: a soft check has returned for a bucket that holds a counter.
C2_Witness ==
    \E p \in Procs :
        /\ rl[p].pc = "ret" /\ rl[p].soft
        /\ rl[p].requests >= 2
        /\ GetCounter(CallBucket(p)) = rl[p].requests - 1

\* C3: under every interleaving of hard calls, the value a call compares
\* against the limit is at least the number of increments committed to its
\* bucket up to and including its own, so at most N calls of one bucket
\* return None.
C3_NeverUndercounts ==
    /\ \A p \in Procs :
          (rl[p].pc = "ret" /\ ~rl[p].soft) => rl[p].requests >= rl[p].own
    /\ \A b \in DOMAIN allowed : allowed[b] <= rate.requests

\* C3 witness: two hard calls on one bucket overlapped, and the one that
\* committed first read the other's increment too.
C3_Witness ==
    \E p \in Procs :
        /\ rl[p].pc = "ret" /\ ~rl[p].soft /\ ~rl[p].alone
        /\ rl[p].requests > rl[p].own

\* ---------------------------------------------------- claims: TTL'd keys

\* C4: a read that fetched an entry written with ttl t at time w returns
\* None (key_get) / false (key_exists) when its now() is >= w + t, whether
\* or not the sweeper has removed the entry, and the written value / true
\* before that time.
C4_ExpiredReadsAbsent ==
    \A p \in Procs :
        (kv[p].pc = "ret" /\ kv[p].op \in {"get", "exists"} /\ kv[p].bytes # None) =>
            LET e == kv[p].bytes[1]
                passed == e.ttl # None /\ kv[p].at >= e.w + e.ttl[1]
            IN IF kv[p].op = "get"
               THEN kv[p].result = IF passed THEN None ELSE Some(e.value)
               ELSE kv[p].result = Some(~passed)

\* C4 witness: a key_get found the bytes of an expired entry still stored
\* (the sweeper had not removed them) and returned None.
C4_Witness ==
    \E p \in Procs :
        /\ kv[p].pc = "ret" /\ kv[p].op = "get"
        /\ kv[p].bytes # None
        /\ kv[p].result = None
        /\ kv[p].key \in DOMAIN keys

\* --------------------------------------------- claims: the report pipeline

\* The number of entries of the run's history with the given tag.
Count(tag) == Cardinality({i \in 1..Len(log) : log[i][1] = tag})

\* C5: a generate_tls_report run that has returned has invoked
\* delete_tls_report exactly once, and the only store actions after that
\* invocation are the delete's own.
C5_CleanupExactlyOnce ==
    gen.pc = "done" =>
        /\ Count("delete") = 1
        /\ \A i, j \in 1..Len(log) :
              (log[i][1] = "delete" /\ i < j) => log[j][1] \in {"delete_range", "delete_write"}

\* C5 witness: a run whose compression failed has returned.
C5_Witness == gen.pc = "done" /\ gen.outcome = "compress" /\ Count("delete") = 1

\* C6: when no HTTP recipient answered with success, the run attempted every
\* HTTP recipient once, in list order, before composing mail; then handed
\* over exactly one message, addressed to all the mailbox recipients, iff
\* there is one; then invoked cleanup once.
C6_DeliveryFallback ==
    (gen.pc = "done" /\ gen.outcome \in {"mail", "norcpt"}) =>
        LET IsDelivery(e) == e[1] \in {"post", "mail", "delete"}
            delivery == SelectSeq(log, IsDelivery)
            https == SelectSeq(gen.rua, IsHttp)
            mails == SelectSeq(gen.rua, IsMail)
        IN [i \in 1..Len(delivery) |->
               IF delivery[i][1] = "post" THEN <<"post", delivery[i][2]>> ELSE delivery[i]]
           = [i \in 1..Len(https) |-> <<"post", https[i]>>]
                \o (IF mails # <<>> THEN << <<"mail", mails>> >> ELSE <<>>)
                \o << <<"delete">> >>

\* C6 witness: two HTTP recipients failed, two mailboxes (one listed before
\* the first HTTP recipient) got the message, and the run has returned.
C6_Witness ==
    /\ gen.pc = "done" /\ gen.outcome = "mail"
    /\ Count("post") = 2
    /\ Len(gen.rcpts) = 2
    /\ IsMail(gen.rua[1])

\* C7: once an HTTP recipient has answered a POST with success, cleanup is
\* the next thing the run does, no later POST is made and no mail is sent.
C7_FirstSuccessEnds ==
    \A i \in 1..Len(log) :
        (log[i][1] = "post" /\ log[i][3] = "success") =>
            /\ i < Len(log) /\ log[i + 1] = <<"delete">>
            /\ \A j \in 1..Len(log) : j > i => log[j][1] # "post"
            /\ \A j \in 1..Len(log) : log[j][1] # "mail"

\* C7 witness: an HTTP recipient accepted with recipients left in the list
\* and a mailbox already collected, and the run has returned.
C7_Witness ==
    /\ gen.pc = "done" /\ gen.outcome = "http"
    /\ \E i \in 1..Len(log) : log[i][1] = "post" /\ log[i][3] = "success"
    /\ gen.j < Len(gen.rua)
    /\ gen.rcpts # <<>>

\* The events of a policy entry's group that carry `payload`, as stored when
\* the group was scanned; the record the scan failed on (if any) is left out.
Occurrences(p, payload) ==
    Cardinality({i \in 1..Len(p.stored) : i # p.bad /\ p.stored[i] = payload})
Readable(p) == Cardinality({i \in 1..Len(p.stored) : i # p.bad})

\* C8: when the size cap is not hit, a policy entry has one failure record
\* per distinct failure payload stored in its group, counted with the
\* number of its events; total_failure is the number of failure events and
\* total_success the number of success events (a record that could not be
\* read carries no payload and is not expected in any count).
C8_Dedup ==
    ~gen.capHit =>
        \A n \in 1..Len(gen.policies) :
            LET p == gen.policies[n]
            IN /\ DOMAIN p.failure_details = {f \in Failures : Occurrences(p, Some(f)) > 0}
               /\ \A f \in DOMAIN p.failure_details :
                     p.failure_details[f] = Occurrences(p, Some(f))
               /\ p.total_failure = Readable(p) - Occurrences(p, None)
               /\ p.total_success = Occurrences(p, None)

RECURSIVE SumOver(_, _)
SumOver(f, S) ==
    IF S = {} THEN 0
    ELSE LET x == CHOOSE y \in S : TRUE IN f[x] + SumOver(f, S \ {x})

\* The serialized size of a whole policy: its header and one record per
\* distinct failure payload of its group; and of the records it includes.
FullSize(p) ==
    SerSize.header + SumOver(SerSize, {f \in Failures : Occurrences(p, Some(f)) > 0})
IncludedSize(p) == SerSize.header + SumOver(SerSize, DOMAIN p.failure_details)

\* The events counted, as positions in processed order (group by group).
Offset(n) == SumOver([m \in 1..Len(gen.policies) |-> Len(gen.policies[m].stored)], 1..(n - 1))
CountedPositions ==
    UNION {{Offset(n) + i : i \in gen.policies[n].counted} : n \in 1..Len(gen.policies)}
ProcessedEvents == Offset(Len(gen.policies) + 1)

\* C9: once aggregation is over and every scan ran to its end or to the
\* cap, if the whole content exceeds the maximum, the events counted in the
\* report are a strict prefix of the events in processed order and the size
\* of what the report includes is within the maximum.
C9_SizeCap ==
    LET policies == [n \in 1..Len(gen.policies) |-> gen.policies[n]]
        total == SerSize.shell + SumOver([n \in DOMAIN policies |-> FullSize(policies[n])],
                                         DOMAIN policies)
        included == SerSize.shell + SumOver([n \in DOMAIN policies |-> IncludedSize(policies[n])],
                                            DOMAIN policies)
    IN (gen.pc \notin {"idle", "agg"} /\ gen.policies # <<>> /\ ~gen.cut /\ total > maxSize) =>
          /\ \E c \in 0..(ProcessedEvents - 1) : CountedPositions = 1..c
          /\ included <= maxSize

\* C10: a delete_tls_report call that repeats, on the same events, a call
\* that no store error cut short leaves the store as that call left it.
C10_IdempotentCleanup ==
    (del.second /\ del.pc # "idle") => tlsStore = del.snap

\* C10 witness: such a second call has returned, with the events of another
\* group still stored.
C10_Witness ==
    /\ del.pc = "done" /\ del.second
    /\ tlsEvents # Empty

\* --------------------------------------------- claims: the producers

\* C11: whatever the order in which racing producers committed their
\* writes, the scan of a group visits every stored event of the group, in
\* strictly ascending seq_id order.
C11_AscendingScan ==
    \A n \in 1..Len(gen.policies) :
        LET p == gen.policies[n]
        IN /\ \A i, j \in 1..Len(p.visited) : i < j => p.visited[i][2] < p.visited[j][2]
           /\ {p.visited[i] : i \in 1..Len(p.visited)} = {k \in DOMAIN tlsEvents : k[1] = p.group}

\* C11 witness: two producers of one group committed in the reverse order of
\* their seq_ids, and the group was scanned.
C11_Witness ==
    /\ Len(commits) = 2
    /\ commits[1].g = commits[2].g /\ commits[1].seq > commits[2].seq
    /\ \E n \in 1..Len(gen.policies) :
          gen.policies[n].group = commits[1].g /\ Len(gen.policies[n].visited) = 2

\* C12: the scan of a group visits events of that group only, and a cleanup
\* leaves the events and the header of every group not passed to it as they
\* were when it began.
C12_GroupIsolation ==
    /\ \A n \in 1..Len(gen.policies) :
          \A i \in 1..Len(gen.policies[n].visited) :
              gen.policies[n].visited[i][1] = gen.policies[n].group
    /\ del.pc # "idle" =>
          LET passed == {del.events[i] : i \in 1..Len(del.events)}
              headers == del.snap[1]
              events == del.snap[3]
          IN /\ \A k \in DOMAIN events :
                   k[1] \notin passed => (k \in DOMAIN tlsEvents /\ tlsEvents[k] = events[k])
             /\ \A g \in DOMAIN headers :
                   g \notin passed => (g \in DOMAIN tlsHeaders /\ tlsHeaders[g] = headers[g])

\* C12 witness: both groups held events, the cleanup of one of them has
\* returned and removed its events, and the other group's are stored.
C12_Witness ==
    /\ del.pc = "done" /\ Len(del.events) = 1
    /\ \E k \in DOMAIN del.snap[3] : k[1] = del.events[1] /\ k \notin DOMAIN tlsEvents
    /\ \E k \in DOMAIN tlsEvents : k[1] # del.events[1]

\* C13: every seq_id assigned in a group is strictly greater than every
\* seq_id assigned in that group before, on the generator path and on the
\* wall-clock path, and no committed event replaced a stored one.
C13_SeqIdsIncrease ==
    /\ \A i, j \in 1..Len(assigned) :
          (i < j /\ assigned[i].g = assigned[j].g) => assigned[i].seq < assigned[j].seq
    /\ \A i \in 1..Len(commits) : commits[i].fresh

\* C14: of the producers that raced on a group and read its header without
\* error, exactly one wrote the header and the lock, the header was not
\* written again, and every committed event is stored.
C14_HeaderOnce ==
    /\ \A i, j \in 1..Len(commits) :
          (i < j /\ commits[i].g = commits[j].g /\ commits[i].readOk /\ commits[j].readOk) =>
              ~commits[j].header
    /\ \A i \in 1..Len(commits) :
          (commits[i].readOk /\ ~commits[i].present) => commits[i].header
    /\ runs = 0 => \A i \in 1..Len(commits) :
          commits[i].path = "generator" => <<commits[i].g, commits[i].seq>> \in DOMAIN tlsEvents

\* C15: with a fail2ban rate configured, is_fail2banned blocks the address
\* (inserts it into the blocked set and returns Some) only if both the
\* per-address and the per-login rate check are over threshold at that
\* call; with at most one of them over threshold it returns None.  (Calls
\* whose store round trips all succeeded.)
C15_BlocksOnlyIfBoth ==
    (f2b.pc = "ret" /\ limiter_rate # None /\ ~f2b.err)
        => (f2b.result # None => (f2b.ipOver /\ f2b.loginOver))

\* What the configuration of the last reload_blocked_ips and the fail2ban
\* insertions since it make of an address.
Configured(ip) ==
    \/ ip \in ConfigAddrs(rel.config) \cup banned
    \/ \E network \in ConfigNets(rel.config) : Matches(network, ip)

\* C16 (as stated): after reload_blocked_ips(config) returns, is_blocked(ip)
\* holds iff ip is a configured exact address, or was blocked by
\* is_fail2banned since that reload, or matches a configured network.
C16_BlockedIffConfigured_AnyReturn ==
    rel.pc = "ret" => \A ip \in Ips : IsBlocked(ip) <=> Configured(ip)

\* C16 (amended): the same, after reload_blocked_ips(config) returned Ok;
\* the has_networks flag never hides a configured network.
C16_BlockedIffConfigured ==
    (rel.pc = "ret" /\ rel.ok) => \A ip \in Ips : IsBlocked(ip) <=> Configured(ip)

\* A reload returned Ok with a network configured, an address of it is
\* blocked through the network only, and fail2ban has blocked another.
C16_Witness ==
    /\ rel.pc = "ret" /\ rel.ok
    /\ ConfigNets(rel.config) = {10}
    /\ <<10, 2>> \notin ip_addresses /\ IsBlocked(<<10, 2>>)
    /\ <<192, 1>> \in banned /\ IsBlocked(<<192, 1>>)

\* What each variant can do: Store everything, Query and Memory the reads
\* of a key.
Capable(variant, op) == variant = "Store" \/ op \in {"key_get", "key_exists"}

\* C17: a Lookup Store operation called on a variant that lacks the
\* capability returns the unsupported-operation error; no variant returns
\* success without performing the operation.
C17_UnsupportedIsAnError ==
    (disp.op # "none" /\ ~Capable(backend, disp.op))
        => (disp.result = "Unsupported" /\ ~disp.performed)

\* C18: after purge_expired completes with no concurrent writers, no lookup
\* key whose expires_at is <= the time the purge started and no counter
\* whose expiry record is <= that time remains, whatever bytes the key has.
C18_PurgeRemovesExpired ==
    (purge.pc = "idle" /\ purge.done)
        => /\ \A k \in DOMAIN keys : keys[k].expires > purge.started
           /\ \A b \in DOMAIN counterExpiry : counterExpiry[b] > purge.started
           /\ \A b \in DOMAIN counters :
                b \in DOMAIN counterExpiry => counterExpiry[b] > purge.started

\* C19: after any sequence of counter_incr (with a ttl), counter_delete and
\* purge_expired, a counter value is stored if and only if its paired expiry
\* record is stored.
C19_CounterIffExpiry ==
    \A b \in CounterKeys : b \in DOMAIN counters <=> b \in DOMAIN counterExpiry

\* C20: an entry written by key_set with no ttl never expires: key_get
\* returns its value and key_exists true at every later time, and no run of
\* purge_expired removes it; only key_delete or a later key_set on the key
\* ends it.
C20_NoTtlNeverExpires ==
    [][/\ \A p \in Procs :
            (kv'[p].pc = "ret" /\ kv'[p].op \in {"get", "exists"} /\ kv'[p].bytes # None
                /\ kv'[p].bytes[1].ttl = None)
                => kv'[p].result = IF kv'[p].op = "get" THEN Some(kv'[p].bytes[1].value)
                                   ELSE Some(TRUE)
       /\ \A k \in DOMAIN keys :
            (keys[k].ttl = None /\ k \notin DOMAIN keys') => purge' = purge]_vars

\* C21: spawn_worker never hangs its caller: once the closure has run to its
\* end the awaiting caller receives its result, and when the worker ended
\* without sending (the closure panicked) the caller receives the
\* InternalError.
C21_WorkerAnswers ==
    /\ [](\A p \in Procs : work[p].pc = "ret"
            => work[p].result = IF work[p].f = "panic" THEN Some(WorkerFailed)
                                ELSE Some(ClosureResult(work[p].f)))
    /\ \A p \in Procs : (work[p].pc = "done") ~> (work[p].pc = "ret")

\* A caller whose closure panicked has received the InternalError.
C21_Witness ==
    \E p \in Procs : work[p].pc = "ret" /\ work[p].f = "panic" /\ work[p].result = Some(WorkerFailed)

\* C22: when one stored event of a group cannot be decoded during
\* aggregation, only that record is skipped: every other event of the
\* group, those with a larger seq_id included, is counted in the report.
C22_DecodePerRecord ==
    ~gen.capHit =>
        \A n \in 1..Len(gen.policies) :
            LET p == gen.policies[n]
            IN p.bad # 0 => p.counted = (1..Len(p.stored)) \ {p.bad}

C24_EmptyReportNotDelivered ==
    /\ (gen.pc \notin {"idle", "agg", "built"} /\ gen.policies = <<>>) =>
          /\ Count("post") = 0 /\ Count("mail") = 0
          /\ Count("delete") = 1 /\ gen.outcome = "empty"
    /\ (Count("post") + Count("mail") > 0) => gen.policies # <<>>

\* C24 witness: no header of the run's groups could be used, and the run
\* has returned after its cleanup.
C24_Witness ==
    /\ gen.pc = "done" /\ gen.outcome = "empty"
    /\ gen.headless # {} /\ gen.policies = <<>>
    /\ Count("delete") = 1 /\ Count("post") = 0

\* What is stored of the groups the run was given: events, headers, locks.
Leftovers ==
    LET given == {gen.events[i] : i \in 1..Len(gen.events)}
    IN <<{k \in DOMAIN tlsEvents : k[1] \in given},
         DOMAIN tlsHeaders \cap given,
         tlsLocks \cap {TlsLock(g) : g \in given}>>

C26_ExpiryIsPeriodEnd ==
    /\ \A p \in Procs :
          rl[p].pc # "idle" => CallBucket(p) = <<rl[p].key, rl[p].now \div rate.period>>
    /\ \A b \in DOMAIN committed : GetCounter(b) = committed[b]
    /\ \A b \in DOMAIN counterExpiry : counterExpiry[b] = (b[2] * rate.period) + rate.period

\* C27: a Basic attempt runs only the soft check before the credentials
\* are verified, and the hard check runs exactly when the directory reports
\* AuthResult::Failure; a successful, banned or directory-error attempt
\* leaves the auth rate counter as it was.
C27_OnlyFailurePenalized ==
    /\ auth.pc = "decode" => counters = auth.before
    /\ auth.pc = "ret" =>
          /\ auth.hard = 1 <=> auth.dir = "failure"
          /\ IF auth.dir = "failure"
             THEN counters = Put(auth.before, Bucket(auth.addr, auth.at, rate),
                                 Get(auth.before, Bucket(auth.addr, auth.at, rate), 0) + 1)
             ELSE counters = auth.before

\* C27 witness: after a counted failure, a directory error has left the
\* counter of the address as it was.
C27_Witness ==
    /\ auth.pc = "ret" /\ auth.dir = "error" /\ auth.decodes
    /\ auth.before # Empty /\ counters = auth.before

\* The operations of all the batches written.
WrittenOps == SumOver([i \in DOMAIN pb.written |-> OpsLen(pb.written[i])], DOMAIN pb.written)

\* C28: purge_expired never writes a batch of more than 1000 operations,
\* writes the last, partial batch, and puts the clear of a counter and
\* the clear of its expiry record in the same batch.
C28_BatchesBounded ==
    /\ \A i \in DOMAIN pb.written :
          /\ OpsLen(pb.written[i]) \in 1..BatchOps
          /\ pb.written[i].counter = pb.written[i].expiry
    /\ (pb.pc = "done" /\ ~pb.err) =>
          WrittenOps = IF pb.kind = "keys" THEN pb.n ELSE 2 * pb.n

\* C28 witness: 501 expired counters were cleared in a full batch and a
\* last batch of two operations.
C28_Witness ==
    /\ pb.pc = "done" /\ ~pb.err /\ pb.kind = "counters"
    /\ Len(pb.written) = 2
    /\ OpsLen(pb.written[1]) = BatchOps /\ OpsLen(pb.written[2]) = 2

\* C30: the header is created once per group: a schedule_tls call for a
\* group whose header was stored when the call looked it up writes the
\* event only, neither header nor lock marker, also when that read failed
\* with a store error.
C30_StoredHeaderKept ==
    \A i \in DOMAIN commits : commits[i].stored => ~commits[i].header

\* The cleanup in flight, or the last one, listed every group that had a
\* header under the lock marker it clears.
CleanupCovers ==
    \/ del.pc = "idle"
    \/ del.events = <<>>
    \/ \A g \in DOMAIN del.snap[1] :
          TlsLock(g) = TlsLock(del.events[1]) => \E i \in DOMAIN del.events : del.events[i] = g

C31_SoftPredictsHard ==
    \A p \in Procs :
        (rl[p].pc = "ret" /\ ~rl[p].soft /\ rl[p].alone /\ rl[p].prev # None) =>
            LET before == rl[p].prev[1]
            IN /\ (before.result = None) <=> (rl[p].result = None)
               /\ (before.result # None /\ before.now = rl[p].now) =>
                      before.result = rl[p].result

\* C31 witness: a soft check and the hard check after it, at the same
\* now(), both denied with the same seconds-until-reset.
C31_Witness ==
    \E p \in Procs :
        /\ rl[p].pc = "ret" /\ ~rl[p].soft /\ rl[p].alone /\ rl[p].prev # None
        /\ rl[p].result # None
        /\ rl[p].prev[1] = [result |-> rl[p].result, now |-> rl[p].now]

\* C32: the write of schedule_tls ends the call: the producer returns, and
\* when the write failed (nothing was committed) the store is as it was:
\* no event, header or lock marker of the call is stored, and none is
\* written later.
C32_FailedWriteStoresNothing ==
    [][\A p \in Procs :
          (sched[p].pc = "write" /\ sched'[p] # sched[p]) =>
              /\ sched'[p] = [IdleSched EXCEPT !.pc = "ret"]
              /\ commits' = commits => tlsStore' = tlsStore]_vars

\* C32 witness: a producer has returned from a failed write: an id was
\* assigned, nothing was committed and the store is empty.
C32_Witness ==
    /\ \E p \in Procs : sched[p].pc = "ret"
    /\ \A p \in Procs : sched[p].pc \in {"idle", "ret"}
    /\ Len(assigned) = 1 /\ commits = <<>>
    /\ tlsStore = <<Empty, {}, Empty>>

\* C33: a request whose token is not in the session cache consults the
\* pre-authentication limiter first (is_auth_allowed_soft for Basic,
\* is_anonymous_allowed otherwise); when the limiter denies, the error is
\* returned with nothing verified and nothing cached.
C33_LimiterFirst ==
    (hdr.pc \notin {"idle", "limit"} /\ ~hdr.hit) =>
        /\ hdr.calls # <<>>
        /\ hdr.calls[1] = IF hdr.mech = "basic" THEN "is_auth_allowed_soft"
                          ELSE "is_anonymous_allowed"
        /\ hdr.result = "limited" =>
              /\ hdr.pc = "ret" /\ Len(hdr.calls) = 1
              /\ <<sessions, access_tokens>> = hdr.before

\* C33 witness: a Basic request was turned away by the soft check.
C33_Witness ==
    /\ hdr.pc = "ret" /\ hdr.mech = "basic" /\ ~hdr.hit /\ hdr.result = "limited"
    /\ hdr.calls = <<"is_auth_allowed_soft">>

\* C34: a call inserts into the session cache and into the access-token
\* cache exactly if its credentials or its token were verified in that
\* call, and a returned session has passed is_account_allowed.
C34_CachedIffVerified ==
    hdr.pc = "ret" =>
        /\ (\E i \in DOMAIN hdr.calls : hdr.calls[i] = "cache_session") <=> hdr.verified
        /\ (\E i \in DOMAIN hdr.calls : hdr.calls[i] = "cache_access_token") <=> hdr.verified
        /\ hdr.result = "session" => hdr.calls[Len(hdr.calls)] = "is_account_allowed"

\* C35: with a fail2ban rate configured, a rate check of is_fail2banned
\* that fails with a store error counts as denied: the call inserts the
\* address into the blocked set and returns Some; with no rate configured
\* the call returns None and changes neither the blocked addresses and
\* networks nor a counter.
C35_StoreErrorBlocks ==
    /\ [][/\ (f2b.pc \in {"ip", "login"} /\ f2b'.pc = "ret" /\ f2b'.err) =>
                /\ f2b'.result = Some(f2b.ip)
                /\ f2b.ip \in ip_addresses'
          /\ (limiter_rate = None /\ f2b' # f2b) =>
                /\ f2b'.pc = "ret" /\ f2b'.result = None
                /\ UNCHANGED <<ip_addresses, ip_networks, has_networks, counters, counterExpiry>>]_vars
    /\ [](limiter_rate = None =>
             f2b.result = None /\ banned = {} /\ counters = Empty /\ counterExpiry = Empty)

\* C35 witness: the counter write of the per-address check failed: nothing
\* was counted and the address is blocked.
C35_Witness ==
    /\ f2b.pc = "ret" /\ f2b.err /\ limiter_rate # None
    /\ f2b.result = Some(f2b.ip) /\ f2b.ip \in ip_addresses
    /\ counters = Empty

\* The counter and the expiry record of the login of the call, in the
\* bucket of now.
LoginCounter(cs, es) ==
    LET b == Bucket(F2bKey(f2b.login), clock, limiter_rate[1])
    IN <<Get(cs, b, 0), Get(es, b, 0)>>

\* C36: the per-login check runs only when the per-address check allowed:
\* a call whose per-address check denied or failed returns with the
\* per-login counter as it was.
C36_LoginCheckShortCircuits ==
    [][(f2b.pc = "ip" /\ f2b'.pc = "ret") =>
           /\ ~f2b'.loginRan
           /\ LoginCounter(counters', counterExpiry') = LoginCounter(counters, counterExpiry)]_vars

\* C36 witness: the address was over its limit, the call blocked it, and
\* the login has no counter.
C36_Witness ==
    /\ f2b.pc = "ret" /\ f2b.ipOver /\ ~f2b.loginRan /\ f2b.result # None
    /\ \A b \in DOMAIN counters : b[1] # F2bKey(f2b.login)

\* A configuration blocks an address by an exact entry or by a network.
ConfigBlocks(config, ip) ==
    ip \in ConfigAddrs(config) \/ \E network \in ConfigNets(config) : Matches(network, ip)

\* C37: while reload_blocked_ips replaces the configuration, is_blocked
\* holds of every address that both the old and the new configuration
\* block: no state between the three updates reports it as not blocked.
C37_BlockedAcrossReload ==
    rel.pc \in {"flag", "addrs", "nets"} =>
        \A ip \in Ips :
            (ConfigBlocks(rel.old, ip) /\ ConfigBlocks(rel.config, ip)) => IsBlocked(ip)

\* C38: purge_expired never removes an entry whose stored stamp is in the
\* future: an entry written again with a fresh ttl between the scan and
\* the delete batch of the purge is still stored after the batch.
C38_PurgeSparesRewritten ==
    [][\A k \in DOMAIN keys :
          (purge.pc = "del_keys" /\ purge'.pc = "scan_counters" /\ k \notin DOMAIN keys')
              => keys[k].expires <= clock]_vars

\* now() is a count of seconds that fits an i64 and the arithmetic of lines
\* 263-265 is done in u64: scaled down, times below 2^TimeBits in words of
\* TimeBits + 1 bits.
ScaledTimes == 0..(2^TimeBits - 1)
ScaledWordMax == 2^(TimeBits + 1) - 1

\* C39: every denial of is_rate_allowed is Some(n) with 1 <= n <= period:
\* range_end = (now / period) * period + period does not overflow, lies
\* after now, and range_end - now is in 1..period, for every now and every
\* period >= 1 (the arithmetic is checked in the initial states).
C39_DenialWithinPeriod ==
    /\ \A p \in Procs :
          (rl[p].pc = "ret" /\ rl[p].result # None) => rl[p].result[1] \in 1..rate.period
    /\ (clock = 0 /\ calls = 0) =>
          \A now \in ScaledTimes, period \in 1..ScaledWordMax :
              LET r == [requests |-> 1, period |-> period]
              IN /\ RangeEnd(now, r) <= ScaledWordMax
                 /\ RangeEnd(now, r) > now
                 /\ ExpiresIn(now, r) \in 1..period

\* C39 witness: a denial in the last second of a bucket of three: one
\* second until reset.
C39_Witness ==
    \E p \in Procs :
        /\ rl[p].pc = "ret" /\ rl[p].result = Some(1)
        /\ rate.period = 3 /\ rl[p].now = 2

\* The step on which call p reads the counter of its bucket.
ReadsCounter(p) == rl[p].pc = "fetch" /\ rl'[p].pc = "ret"
\* What p then compares against the limit.
CountRead(p) == rl'[p].requests

====
